---- MODULE Spec2Model ----
(***************************************************************************)
(* BleachBit secure file erasure: the Windows cluster-level wipe engine    *)
(* (bleachbit/WindowsWipe.py) and its callers in bleachbit/FileUtilities.  *)
(*                                                                         *)
(* The volume is a row of clusters.  Every cluster has an owner (free, the *)
(* file being wiped, another process, the zero-fill temporary file, or     *)
(* "pend": released by its file but not yet shown free by the volume       *)
(* bitmap, as NTFS does until its next checkpoint) and a content ("data":  *)
(* bytes of the file being wiped, "zero", or "other").                     *)
(***************************************************************************)
EXTENDS Integers, Sequences, FiniteSets, TLC

(***************************************************************************)
(* Bounds of the model.                                                    *)
(***************************************************************************)
NumClusters == 7        \* clusters of the volume under file_wipe
DefragClusters == 22    \* clusters of the larger volume under wipe_extent_by_defrag
MaxSteals == 1          \* clusters another process may allocate during a run
MaxCluster == 4         \* largest cluster number in an extents_a_minus_b input
MaxFrag == 2            \* most extents the OS gives the zero-fill file
MaxSplitStart == 2      \* largest lcn_start given to split_extent on its own
MaxSplitCount == 210    \* largest run of consecutive lengths given to split_extent
MaxRanges == 4          \* longest enumerated VCN/LCN list
MaxBlocks == 6          \* whole 4096-byte blocks in a file given to wipe_write
MaxFrees == 1           \* times another process frees space during wipe_path
MaxCloseFailures == 1   \* f.close() calls that raise, per temporary file
MaxTakes == 1           \* times another process allocates space during wipe_path
MaxFiles == 3           \* files wipe_path can have open before EMFILE

(***************************************************************************)
(* Program constants.                                                      *)
(***************************************************************************)
WRITE_BUF_SIZE == 524288
polling_duration_seconds == 7
attempts_per_second == 10
split_factor == 10
TMP_FILE_NAME == "bbtemp.dat"
LONG_NAME_LENGTH == 226        \* maxlen = 226 in wipe_name
LONG_NAME_STEP == 10           \* maxlen -= 10
RENAME_RETRIES == 100          \* if i > 100
WIPE_BLOCK == 4096             \* blanks = b'\0' * 4096 in wipe_write
FILL_BLOCK == 65536            \* blanks = b'\0' * 65536 in wipe_path

(***************************************************************************)
(* Helpers on sequences of extents.  An extent is <<lcn_start, lcn_end>>.  *)
(***************************************************************************)
Last(s) == s[Len(s)]

Front(s) == SubSeq(s, 1, Len(s) - 1)

Min(x, y) == IF x <= y THEN x ELSE y

ExtentClusters(x) == x[1] .. x[2]

ClustersOf(extents) == UNION {ExtentClusters(extents[i]) : i \in DOMAIN extents}

RECURSIVE SumLengths(_)
SumLengths(extents) ==
    IF extents = <<>> THEN 0
    ELSE (Head(extents)[2] - Head(extents)[1] + 1) + SumLengths(Tail(extents))

\* sorted(x, key=itemgetter(0)): a stable sort on the start cluster
RECURSIVE InsertByStart(_, _)
InsertByStart(sorted, x) ==
    IF sorted = <<>> THEN <<x>>
    ELSE IF Last(sorted)[1] <= x[1] THEN Append(sorted, x)
    ELSE Append(InsertByStart(Front(sorted), x), Last(sorted))

RECURSIVE SortByStart(_)
SortByStart(s) ==
    IF s = <<>> THEN <<>> ELSE InsertByStart(SortByStart(Front(s)), Last(s))

(***************************************************************************)
(* logical_ranges_to_extents: ranges is a sequence of <<next_vcn, lcn>>.   *)
(***************************************************************************)
RangesPlainEveryEntry(ranges, index, vcn_count) ==
    [i \in 1..(Len(ranges) - index + 1) |->
        LET j == index + i - 1
            prev == IF j = 1 THEN vcn_count ELSE ranges[j - 1][1]
        IN <<ranges[j][2], ranges[j][2] + (ranges[j][1] - prev) - 1>>]

RECURSIVE RangesPlain(_, _, _)
RangesPlain(ranges, index, vcn_count) ==
    IF index > Len(ranges) THEN <<>>
    ELSE LET vcn == ranges[index][1]
             lcn == ranges[index][2]
         IN IF lcn < 0 THEN RangesPlain(ranges, index + 1, vcn)
            ELSE <<<<lcn, lcn + (vcn - vcn_count) - 1>>>>
                 \o RangesPlain(ranges, index + 1, vcn)

MergeIndexNever(ranges, m) == m

RECURSIVE MergeIndex(_, _)
MergeIndex(ranges, m) ==
    IF /\ m + 2 <= Len(ranges)
       /\ ranges[m + 1][2] < 0
       /\ ranges[m + 2][2] >= 0
       /\ ranges[m + 2][2] - ranges[m][2] <= 16
       /\ ranges[m + 2][2] - ranges[m][2] > 0
    THEN MergeIndex(ranges, m + 2)
    ELSE m

RECURSIVE RangesBridged(_, _, _)
RangesBridged(ranges, index, vcn_count) ==
    IF index > Len(ranges) THEN <<>>
    ELSE LET vcn == ranges[index][1]
             lcn == ranges[index][2]
             merge_index == MergeIndex(ranges, index)
         IN IF lcn < 0 THEN RangesBridged(ranges, index + 1, vcn)
            ELSE IF merge_index = index
                 THEN <<<<lcn, lcn + (vcn - vcn_count) - 1>>>>
                      \o RangesBridged(ranges, index + 1, vcn)
                 ELSE LET last_vcn_span == ranges[merge_index][1]
                                           - ranges[merge_index - 1][1]
                      IN <<<<lcn, ranges[merge_index][2] + last_vcn_span - 1>>>>
                         \o RangesBridged(ranges, merge_index + 1,
                                          ranges[merge_index][1])

logical_ranges_to_extents(ranges, bridge_compressed) ==
    IF bridge_compressed THEN RangesBridged(ranges, 1, 0)
    ELSE RangesPlain(ranges, 1, 0)

(***************************************************************************)
(* extents_a_minus_b: the extents the generator yields, in order.          *)
(***************************************************************************)
\* the inner loop over b_sorted for one extent of a, from position j on
RECURSIVE ScanB(_, _, _, _)
ScanB(a_begin, a_end, b_sorted, j) ==
    IF j > Len(b_sorted) THEN <<>>
    ELSE LET b_begin == b_sorted[j][1]
             b_end == b_sorted[j][2]
         IN IF b_begin > a_end THEN <<<<a_begin, a_end>>>>
            ELSE IF b_end < a_begin THEN ScanB(a_begin, a_end, b_sorted, j + 1)
            ELSE IF b_begin <= a_begin
                 THEN IF b_end >= a_end THEN <<>>
                      ELSE ScanB(b_end + 1, a_end, b_sorted, j + 1)
                 ELSE <<<<a_begin, b_begin - 1>>>>
                      \o (IF b_end >= a_end THEN <<>>
                          ELSE ScanB(b_end + 1, a_end, b_sorted, j + 1))

RECURSIVE MinusLoop(_, _, _, _)
MinusLoop(a_sorted, i, b_sorted, b_is_empty) ==
    IF i > Len(a_sorted) THEN <<>>
    ELSE (IF b_is_empty THEN <<a_sorted[i]>> ELSE <<>>)
         \o ScanB(a_sorted[i][1], a_sorted[i][2], b_sorted, 1)
         \o MinusLoop(a_sorted, i + 1, b_sorted, b_is_empty)

extents_a_minus_b(a, b) ==
    MinusLoop(SortByStart(a), 1, SortByStart(b), b = <<>>)

(***************************************************************************)
(* split_extent.  The loop condition count > split_factor**(exponent+1.3)  *)
(* compares an integer with a float; SplitThreshold(e) is the integer part *)
(* of 10**(e+1.3), so count > 10**(e+1.3) iff count > SplitThreshold(e).   *)
(***************************************************************************)
SplitThreshold(exponent) ==
    <<19, 199, 1995, 19952, 199526, 1995262>>[exponent + 1]

RECURSIVE Power(_, _)
Power(base, exponent) ==
    IF exponent = 0 THEN 1 ELSE base * Power(base, exponent - 1)

RECURSIVE SplitExponent(_, _)
SplitExponent(count, exponent) ==
    IF count > SplitThreshold(exponent) THEN SplitExponent(count, exponent + 1)
    ELSE exponent

split_extent_overlap(lcn_start, lcn_end) ==
    LET count == lcn_end - lcn_start + 1
        extent_size == Power(split_factor, SplitExponent(count, 0))
        n == IF lcn_end < lcn_start THEN 0
             ELSE ((lcn_end - lcn_start) \div extent_size) + 1
    IN [k \in 1..n |->
          LET x == lcn_start + (k - 1) * extent_size
          IN <<x, Min(x + extent_size, lcn_end)>>]

split_extent_halves(lcn_start, lcn_end) ==
    LET count == lcn_end - lcn_start + 1
        extent_size == (count + 1) \div 2
        n == IF lcn_end < lcn_start THEN 0
             ELSE ((lcn_end - lcn_start) \div extent_size) + 1
    IN [k \in 1..n |->
          LET x == lcn_start + (k - 1) * extent_size
          IN <<x, Min(x + extent_size - 1, lcn_end)>>]

split_extent_short(lcn_start, lcn_end) ==
    LET count == lcn_end - lcn_start + 1
        extent_size == Power(split_factor, SplitExponent(count, 0))
        n == IF lcn_end < lcn_start THEN 0
             ELSE (lcn_end - lcn_start) \div extent_size
    IN [k \in 1..n |->
          LET x == lcn_start + (k - 1) * extent_size
          IN <<x, Min(x + extent_size - 1, lcn_end)>>]

split_extent(lcn_start, lcn_end) ==
    LET count == lcn_end - lcn_start + 1
        extent_size == Power(split_factor, SplitExponent(count, 0))
        n == IF lcn_end < lcn_start THEN 0
             ELSE ((lcn_end - lcn_start) \div extent_size) + 1
    IN [k \in 1..n |->
          LET x == lcn_start + (k - 1) * extent_size
          IN <<x, Min(x + extent_size - 1, lcn_end)>>]

(***************************************************************************)
(* The volume bitmap: one bit per cluster, packed eight to a byte, bit lcn *)
(* in byte lcn \div 8 at position lcn % 8; 1 = allocated.                  *)
(***************************************************************************)
RECURSIVE PackByte(_, _, _)
PackByte(allocated, byte, bit) ==
    IF bit > 7 THEN 0
    ELSE (IF (8 * byte + bit) \in allocated THEN Power(2, bit) ELSE 0)
         + PackByte(allocated, byte, bit + 1)

\* get_volume_bitmap: the bitmap the OS returns when `allocated` is the set
\* of clusters it reports as in use
get_volume_bitmap(allocated, clusters) ==
    [byte \in 0..((clusters - 1) \div 8) |-> PackByte(allocated, byte, 0)]

check_mapped_bit(volume_bitmap, lcn) ==
    ((volume_bitmap[lcn \div 8] \div Power(2, lcn % 8)) % 2) > 0

\* the (cluster, cluster) tuples check_extents appends for one extent
AllocatedSingles(x, volume_bitmap) ==
    LET hits == {c \in ExtentClusters(x) : check_mapped_bit(volume_bitmap, c)}
        RECURSIVE Asc(_)
        Asc(set) == IF set = {} THEN <<>>
                    ELSE LET m == CHOOSE c \in set : \A d \in set : c <= d
                         IN <<<<m, m>>>> \o Asc(set \ {m})
    IN Asc(hits)

\* check_extents: [free, allocated, allocated_extents]
RECURSIVE check_extents(_, _)
check_extents(extents, volume_bitmap) ==
    IF extents = <<>> THEN [free |-> 0, allocated |-> 0, allocated_extents |-> <<>>]
    ELSE LET singles == AllocatedSingles(Head(extents), volume_bitmap)
             rest == check_extents(Tail(extents), volume_bitmap)
             size == Head(extents)[2] - Head(extents)[1] + 1
         IN [free |-> (IF size > 0 THEN size - Len(singles) ELSE 0) + rest.free,
             allocated |-> Len(singles) + rest.allocated,
             allocated_extents |-> singles \o rest.allocated_extents]

(***************************************************************************)
(* choose_if_bridged                                                       *)
(***************************************************************************)
choose_if_bridged(volume_bitmap, orig, bridged) ==
    LET count_oallocated == check_extents(orig, volume_bitmap).allocated
        bcheck == check_extents(bridged, volume_bitmap)
        count_ballocated == bcheck.allocated
        bridged2 == extents_a_minus_b(bridged, bcheck.allocated_extents)
        extra_allocated_clusters == count_ballocated - count_oallocated
        saving_in_extents == Len(orig) - Len(bridged2)
        tradeoff == saving_in_extents - extra_allocated_clusters * 10
    IN IF tradeoff > 0 THEN bridged2 ELSE orig

(***************************************************************************)
(* write_zero_fill: the bytes the loop writes, buffer by buffer.           *)
(***************************************************************************)
RECURSIVE write_zero_fill(_)
write_zero_fill(write_length_bytes) ==
    IF write_length_bytes > 0
    THEN IF write_length_bytes >= WRITE_BUF_SIZE
         THEN WRITE_BUF_SIZE + write_zero_fill(write_length_bytes - WRITE_BUF_SIZE)
         ELSE write_length_bytes
    ELSE 0

\* wipe_file_direct: the bytes written from file offset 0.  write_length is
\* assigned in the loop over the extents and used after it.
wipe_file_direct(extents, csize, fsize) ==
    LET write_length == IF extents # <<>>
                        THEN (Last(extents)[2] - Last(extents)[1] + 1) * csize
                        ELSE fsize
    IN write_zero_fill(write_length)

(***************************************************************************)
(* get_volume_information                                                  *)
(***************************************************************************)
Upper(fs) == IF fs = "udf" THEN "UDF" ELSE fs

get_volume_information_exact_case(v) ==
    IF ~v.local THEN "UnsupportedFileSystemError"
    ELSE IF v.drive_type \in {"DRIVE_REMOTE", "DRIVE_CDROM", "DRIVE_UNKNOWN"}
         THEN "UnsupportedFileSystemError"
    ELSE IF v.file_system = "UDF" THEN "UnsupportedFileSystemError"
    ELSE "ok"

get_volume_information(v) ==
    IF ~v.local THEN "UnsupportedFileSystemError"
    ELSE IF v.drive_type \in {"DRIVE_REMOTE", "DRIVE_CDROM", "DRIVE_UNKNOWN"}
         THEN "UnsupportedFileSystemError"
    ELSE IF Upper(v.file_system) = "UDF" THEN "UnsupportedFileSystemError"
    ELSE "ok"

(***************************************************************************)
(* wipe_extent_by_defrag: the decision taken after the bitmap snapshot.    *)
(***************************************************************************)
DefragDecision(count_free, count_allocated, write_length, lcn_start, lcn_end) ==
    IF count_allocated > 0 /\ count_free = 0 THEN "false"
    ELSE IF count_allocated > 0 \/ write_length > WRITE_BUF_SIZE * 4
         THEN IF lcn_start >= lcn_end THEN "false" ELSE "split"
    ELSE "wipe"

\* the except clause around move_file
MoveFailureGivesUp(lcn_start, lcn_end) == "false"

MoveFailureRetries(lcn_start, lcn_end) == "split"

MoveFailureOutcome(lcn_start, lcn_end) ==
    IF lcn_start >= lcn_end THEN "false" ELSE "split"

\* the value the invocation returns once its body has gone the given way;
\* the results of the calls on sub-extents are not looked at
ReturnValue(way) == IF way = "false" THEN "False" ELSE "True"

\* the value of the call file_wipe made: the running invocation is that call
\* as long as no value is known
Outermost(known, way) == IF known = "none" THEN ReturnValue(way) ELSE known

\* tmp_file_path = os.path.dirname(file_name) + os.sep + TMP_FILE_NAME;
\* a path is <<directory, name>>
TmpFilePath(fname) == <<fname[1], TMP_FILE_NAME>>

\* clean_up, without failures of CloseHandle or DeleteFile: the handles and
\* the paths that remain.  h = [fileOpen, volOpen, paths]
clean_up_and_unlink(file_handle, volume_handle, tmp_file_path, h) ==
    [fileOpen |-> IF file_handle # "None" THEN FALSE ELSE h.fileOpen,
     volOpen |-> IF volume_handle # "None" THEN FALSE ELSE h.volOpen,
     paths |-> {}]

clean_up(file_handle, volume_handle, tmp_file_path, h) ==
    [fileOpen |-> IF file_handle # "None" THEN FALSE ELSE h.fileOpen,
     volOpen |-> IF volume_handle # "None" THEN FALSE ELSE h.volOpen,
     paths |-> IF tmp_file_path # "None" THEN h.paths \ {tmp_file_path}
               ELSE h.paths]

(***************************************************************************)
(* State.                                                                  *)
(***************************************************************************)
VARIABLES
    pc,               \* position in delete / wipe_contents / file_wipe
    vol,              \* what the OS reports about the volume of file_name
    is_special,       \* compressed | encrypted | sparse
    readonly,         \* FILE_ATTRIBUTE_READONLY of the file
    cluster_size,
    file_size,
    total_clusters,
    ranges,           \* the file's VCN/LCN list as the OS holds it
    owner,            \* cluster -> "free" | "file" | "other" | "tmp" | "pend"
    content,          \* cluster -> "data" | "zero" | "other"
    paths,            \* the paths that exist
    fileOpen,         \* file_handle is open
    volOpen,          \* volume_handle is open
    tmpOpen,          \* the handle of the zero-fill file is open
    orig_extents,     \* what iterating orig_extents yields from now on
    orig_is_gen,      \* orig_extents is the generator of extents_a_minus_b
    bridged_extents,
    todo,             \* the extents the for loop of file_wipe has yet to visit
    polls,            \* bitmap samples poll_clusters_freed has taken
    pollResult,       \* "none" | "true" | "false"
    stack,            \* pending calls of wipe_extent_by_defrag, innermost first
    cur,              \* the extent of the running wipe_extent_by_defrag
    tmpExt,           \* new_extents of the zero-fill file
    mvIdx,            \* position of the move loop in tmpExt
    new_vcn,
    steals,           \* clusters other processes have allocated so far
    err,              \* the exception that left file_wipe, or "none"
    written,          \* bytes wipe_file_direct wrote, -1 before it ran
    orig0,            \* the extents the file had when file_wipe first read them
    residue,          \* the extents extents_a_minus_b gave file_wipe
    defragCalls,      \* the extents file_wipe passed to wipe_extent_by_defrag
    stolen,           \* the clusters other processes allocated during the run
    race,             \* a cluster of cur was stolen after the bitmap snapshot
    outcome,          \* how the last wipe_extent_by_defrag body ended
    returned,         \* what the call file_wipe made returned, "none" until it is known
    freeSeen,         \* a sample has seen free > allocated on the residue
    ma, mb, mres, mpc, \* extents_a_minus_b on its own: a, b, result, position
    fn, arg, res, ppc, \* a function called on its own: name, arguments, result,
                       \* position ("idle" | "call" | "done")
    n_pc,              \* wipe_name: "idle" | "long" | "short" | "returned"
    pathname1, pathname2, pathname3,   \* names in the directory `head`
    n_i,               \* the counter i of the running rename loop
    maxlen,
    dir,               \* the names under which the file is found in `head`
    tries1, tries2,    \* os.rename calls made by the first and the second loop
    last1, last2,      \* length of the random name of each loop's last call
    ok1, ok2,          \* the loop ended with a rename that succeeded
    wp_pc,             \* wipe_path: "idle" | "create" | "write" | "yielded" | "flush"
                       \*   | "f_truncate" | "f_close" | "f_delete" | "ended"
    fstype, idle,      \* get_filesystem_type(pathname)[0]; the idle argument
    files,             \* the temporary files: [size, open, exists, truncated]
    total_bytes, start_free_bytes, done_wiping,
    blanks,            \* len(blanks)
    writtensize,
    free_bytes,        \* free space of the volume
    frees,             \* times another process has freed space during the run
    fi,                \* index in files of the file the finally block handles
    close_fails,       \* f.close() calls that raised for that file
    route,             \* how the try block was left: "none" | "normal"
                       \*   | "exception" | "closed"
    takes,             \* times another process has allocated space during the run
    watching,          \* the caller keeps the progress records it is given
    progress,          \* done_bytes of the last two progress records kept
    reached99,         \* a progress record had done_percent >= 0.99
    enospc,            \* writes to the current file that raised ENOSPC
    last_errno         \* errno of the last f.write to the current file, or "none"

fsVars == <<ranges, owner, content, paths>>
handleVars == <<fileOpen, volOpen, tmpOpen>>
inputVars == <<vol, is_special, cluster_size, file_size, total_clusters>>
wipeVars == <<orig_extents, orig_is_gen, bridged_extents, todo>>
pollVars == <<polls, pollResult, freeSeen>>
defragVars == <<stack, cur, tmpExt, mvIdx, new_vcn>>
ghostVars == <<written, orig0, residue, defragCalls>>
raceVars == <<steals, stolen, race>>
minusVars == <<ma, mb, mres, mpc>>
pureVars == <<fn, arg, res, ppc>>
nameVars == <<n_pc, pathname1, pathname2, pathname3, n_i, maxlen, dir,
              tries1, tries2, last1, last2, ok1, ok2>>
pathVars == <<wp_pc, fstype, idle, files, total_bytes, start_free_bytes,
              done_wiping, blanks, writtensize, free_bytes, frees, fi,
              close_fails, route, takes, watching, progress, reached99, enospc,
              last_errno>>
utilVars == <<pureVars, nameVars, pathVars>>
vars == <<pc, inputVars, readonly, fsVars, handleVars, wipeVars, pollVars,
          defragVars, ghostVars, raceVars, outcome, returned, err, minusVars, utilVars>>

file_name == <<"dir", "a.bin">>

PollMax == polling_duration_seconds * attempts_per_second

(***************************************************************************)
(* The file system as the OS sees it.                                      *)
(***************************************************************************)
get_extents(r) == logical_ranges_to_extents(r, FALSE)

RECURSIVE Flatten(_)
Flatten(extents) ==
    IF extents = <<>> THEN <<>>
    ELSE [i \in 1..(Head(extents)[2] - Head(extents)[1] + 1) |->
             Head(extents)[1] + i - 1] \o Flatten(Tail(extents))

RECURSIVE RunEnd(_, _)
RunEnd(flat, i) ==
    IF i < Len(flat) /\ flat[i + 1] = flat[i] + 1 THEN RunEnd(flat, i + 1) ELSE i

\* the VCN/LCN list of a file without holes whose clusters are flat, in order
RECURSIVE ToRanges(_, _)
ToRanges(flat, i) ==
    IF i > Len(flat) THEN <<>>
    ELSE LET j == RunEnd(flat, i)
         IN <<<<j, flat[i]>>>> \o ToRanges(flat, j + 1)

SeqRange(s) == {s[i] : i \in DOMAIN s}

\* the clusters the volume bitmap shows as allocated
Allocated == {c \in DOMAIN owner : owner[c] # "free"}

Bitmap == get_volume_bitmap(Allocated, total_clusters)

FreeRun(a, len) == \A c \in a..(a + len - 1) : c \in DOMAIN owner /\ owner[c] = "free"

\* the ways the OS can lay out n new clusters in at most k extents on `free`
RECURSIVE Placements(_, _, _)
Placements(free, n, k) ==
    IF n = 0 THEN {<<>>}
    ELSE IF k = 0 THEN {}
    ELSE UNION {
           UNION {
             {<<<<a, a + len - 1>>>> \o rest :
                rest \in {r \in Placements(free \ (a..(a + len - 1)), n - len, k - 1) :
                            r = <<>> \/ r[1][1] # a + len}}
             : a \in {x \in free : (x..(x + len - 1)) \subseteq free}}
           : len \in 1..n}

(***************************************************************************)
(* Initial states of a file_wipe run.                                      *)
(***************************************************************************)
VolumeInputs ==
    {[local |-> FALSE, drive_type |-> "DRIVE_REMOTE", file_system |-> "NTFS"],
     [local |-> TRUE, drive_type |-> "DRIVE_REMOTE", file_system |-> "NTFS"],
     [local |-> TRUE, drive_type |-> "DRIVE_CDROM", file_system |-> "CDFS"],
     [local |-> TRUE, drive_type |-> "DRIVE_UNKNOWN", file_system |-> "FAT32"],
     [local |-> TRUE, drive_type |-> "DRIVE_REMOVABLE", file_system |-> "udf"],
     [local |-> TRUE, drive_type |-> "DRIVE_FIXED", file_system |-> "UDF"],
     [local |-> TRUE, drive_type |-> "DRIVE_FIXED", file_system |-> "NTFS"],
     [local |-> TRUE, drive_type |-> "DRIVE_REMOVABLE", file_system |-> "FAT32"]}

\* VCN/LCN lists of regular files: resident, one extent, several extents of
\* different lengths in either order on the disk
RegularLayouts ==
    {<<>>,
     <<<<2, 1>>>>,
     <<<<1, 1>>, <<3, 4>>>>,
     <<<<2, 4>>, <<3, 1>>>>,
     <<<<1, 0>>, <<2, 3>>, <<3, 6>>>>}

\* VCN/LCN lists of compressed, sparse or encrypted files
SpecialLayouts ==
    {<<<<2, 1>>>>,
     <<<<2, 1>>, <<4, -1>>, <<6, 4>>>>,
     <<<<1, 5>>, <<2, -1>>, <<3, 2>>>>,
     <<<<1, 1>>, <<2, -1>>, <<3, 3>>, <<4, -1>>, <<5, 5>>>>}

ClusterSizes == {4096, 524288}

SizeOf(r, csize) == IF r = <<>> THEN 700 ELSE Last(r)[1] * csize - 100

InitIdlePure ==
    /\ fn = "none"
    /\ arg = <<>>
    /\ res = <<>>
    /\ ppc = "idle"

InitIdleName ==
    /\ n_pc = "idle"
    /\ pathname1 = "None"
    /\ pathname2 = "None"
    /\ pathname3 = "None"
    /\ n_i = 0
    /\ maxlen = 0
    /\ dir = {}
    /\ tries1 = 0
    /\ tries2 = 0
    /\ last1 = 0
    /\ last2 = 0
    /\ ok1 = FALSE
    /\ ok2 = FALSE

InitIdlePath ==
    /\ wp_pc = "idle"
    /\ fstype = "none"
    /\ idle = FALSE
    /\ files = <<>>
    /\ total_bytes = <<0, 0>>
    /\ start_free_bytes = <<0, 0>>
    /\ done_wiping = FALSE
    /\ blanks = 0
    /\ writtensize = <<0, 0>>
    /\ free_bytes = <<0, 0>>
    /\ frees = 0
    /\ fi = 0
    /\ close_fails = 0
    /\ route = "none"
    /\ takes = 0
    /\ watching = FALSE
    /\ progress = <<>>
    /\ reached99 = FALSE
    /\ enospc = 0
    /\ last_errno = "none"

InitIdleUtil == InitIdlePure /\ InitIdleName /\ InitIdlePath

InitIdleMinus ==
    /\ ma = <<>>
    /\ mb = <<>>
    /\ mres = <<>>
    /\ mpc = "idle"

InitRun(clusters) ==
    /\ total_clusters = clusters
    /\ paths = {file_name}
    /\ fileOpen = FALSE
    /\ volOpen = FALSE
    /\ tmpOpen = FALSE
    /\ orig_extents = <<>>
    /\ orig_is_gen = FALSE
    /\ bridged_extents = <<>>
    /\ todo = <<>>
    /\ polls = 0
    /\ pollResult = "none"
    /\ freeSeen = FALSE
    /\ stack = <<>>
    /\ cur = <<0, 0>>
    /\ tmpExt = <<>>
    /\ mvIdx = 1
    /\ new_vcn = 0
    /\ steals = 0
    /\ err = "none"
    /\ written = -1
    /\ orig0 = <<>>
    /\ residue = <<>>
    /\ defragCalls = <<>>
    /\ stolen = {}
    /\ race = FALSE
    /\ outcome = "none"
    /\ returned = "none"

Init ==
    /\ pc = "start"
    /\ vol \in VolumeInputs
    /\ is_special \in BOOLEAN
    /\ readonly \in BOOLEAN
    /\ cluster_size \in ClusterSizes
    /\ ranges \in (IF is_special THEN SpecialLayouts ELSE RegularLayouts)
    /\ file_size = SizeOf(ranges, cluster_size)
    /\ \E others \in {{}} \cup {{c} : c \in (0..(NumClusters - 1)) \ ClustersOf(get_extents(ranges))} :
         /\ owner = [c \in 0..(NumClusters - 1) |->
                        IF c \in ClustersOf(get_extents(ranges)) THEN "file"
                        ELSE IF c \in others THEN "other" ELSE "free"]
         /\ content = [c \in 0..(NumClusters - 1) |->
                        IF c \in ClustersOf(get_extents(ranges)) THEN "data"
                        ELSE IF c \in others THEN "other" ELSE "zero"]
    /\ InitRun(NumClusters)
    /\ InitIdleMinus
    /\ InitIdleUtil

(***************************************************************************)
(* file_wipe, step by step.                                                *)
(***************************************************************************)
\* the local variables of file_wipe and of the functions it called are gone
\* once it has returned or an exception has left it
LocalsGone ==
    /\ orig_extents' = <<>>
    /\ orig_is_gen' = FALSE
    /\ bridged_extents' = <<>>
    /\ todo' = <<>>
    /\ polls' = 0
    /\ stack' = <<>>
    /\ cur' = <<0, 0>>
    /\ tmpExt' = <<>>
    /\ mvIdx' = 1
    /\ new_vcn' = 0

\* file_wipe: extended_path .. get_volume_information
FwVolumeInfo ==
    /\ pc = "start"
    /\ IF get_volume_information(vol) = "ok"
       THEN pc' = "open1" /\ err' = err
       ELSE pc' = "raised" /\ err' = get_volume_information(vol)
    /\ UNCHANGED <<inputVars, readonly, fsVars, handleVars, wipeVars, pollVars,
                   defragVars, ghostVars, raceVars, outcome, returned, minusVars, utilVars>>

\* file_handle = open_file(file_name)
FwOpenRead ==
    /\ pc = "open1"
    /\ fileOpen' = TRUE
    /\ pc' = "classify"
    /\ UNCHANGED <<inputVars, readonly, fsVars, volOpen, tmpOpen, wipeVars, pollVars,
                   defragVars, ghostVars, raceVars, outcome, returned, err, minusVars, utilVars>>

\* get_file_basic_info, get_extents, bridged extents, CloseHandle
FwClassify ==
    /\ pc = "classify"
    /\ orig_extents' = get_extents(ranges)
    /\ bridged_extents' = IF is_special THEN logical_ranges_to_extents(ranges, TRUE)
                          ELSE <<>>
    /\ orig0' = orig_extents'
    /\ fileOpen' = FALSE
    /\ pc' = "openvol"
    /\ UNCHANGED <<inputVars, readonly, fsVars, volOpen, tmpOpen, orig_is_gen, todo,
                   pollVars, defragVars, written, residue, defragCalls, raceVars,
                   outcome, returned, err, minusVars, utilVars>>

\* volume_handle = obtain_readwrite(volume)
FwOpenVolume ==
    /\ pc = "openvol"
    /\ volOpen' = TRUE
    /\ pc' = "openrw"
    /\ UNCHANGED <<inputVars, readonly, fsVars, fileOpen, tmpOpen, wipeVars, pollVars,
                   defragVars, ghostVars, raceVars, outcome, returned, err, minusVars, utilVars>>

\* strip the read-only attribute, open_file(file_name, GENERIC_READ | GENERIC_WRITE)
FwOpenWrite ==
    /\ pc = "openrw"
    /\ readonly' = FALSE
    /\ fileOpen' = TRUE
    /\ pc' = "wipe"
    /\ UNCHANGED <<inputVars, fsVars, volOpen, tmpOpen, wipeVars, pollVars,
                   defragVars, ghostVars, raceVars, outcome, returned, err, minusVars, utilVars>>

\* the clusters a write of `bytes` bytes from offset 0 covers
ClustersWritten(bytes) == (bytes + cluster_size - 1) \div cluster_size

\* what file_wipe does once wipe_file_direct has returned and the file has
\* the VCN/LCN list r: re-read the extents, close, compare
AfterDirect(r) ==
    LET new_extents == get_extents(r)
    IN /\ fileOpen' = FALSE
       /\ IF orig_extents = new_extents
          THEN /\ volOpen' = clean_up("None", "volume_handle", "None",
                                      [fileOpen |-> FALSE, volOpen |-> volOpen,
                                       paths |-> paths]).volOpen
               /\ pc' = "fw_done"
               /\ orig_extents' = <<>>
               /\ UNCHANGED <<orig_is_gen, residue>>
          ELSE /\ residue' = extents_a_minus_b(orig_extents, new_extents)
               /\ orig_extents' = residue'
               /\ orig_is_gen' = TRUE
               /\ pc' = "poll"
               /\ UNCHANGED volOpen

\* direct wipe of a regular file; the file system overwrites in place
FwDirectInPlace ==
    /\ pc = "wipe"
    /\ ~is_special
    /\ LET bytes == wipe_file_direct(orig_extents, cluster_size, file_size)
           flat == Flatten(get_extents(ranges))
           k == Min(ClustersWritten(bytes), Len(flat))
       IN /\ written' = bytes
          /\ content' = [c \in DOMAIN content |->
                           IF c \in {flat[i] : i \in 1..k} THEN "zero" ELSE content[c]]
          /\ UNCHANGED <<ranges, owner, paths>>
          /\ AfterDirect(ranges)
    /\ UNCHANGED <<inputVars, readonly, tmpOpen, bridged_extents, todo, pollVars,
                   defragVars, orig0, defragCalls, raceVars, outcome, returned, err, minusVars, utilVars>>

\* direct wipe of a regular file; the file system puts the written part of
\* the file on new clusters and releases the old ones
FwDirectRelocated ==
    /\ pc = "wipe"
    /\ ~is_special
    /\ LET bytes == wipe_file_direct(orig_extents, cluster_size, file_size)
           flat == Flatten(get_extents(ranges))
           k == ClustersWritten(bytes)
       IN /\ k >= 1
          /\ \E a \in DOMAIN owner :
               /\ FreeRun(a, k)
               /\ LET old == {flat[i] : i \in 1..Min(k, Len(flat))}
                      fresh == a..(a + k - 1)
                      newflat == [i \in 1..k |-> a + i - 1]
                                 \o SubSeq(flat, k + 1, Len(flat))
                  IN /\ written' = bytes
                     /\ owner' = [c \in DOMAIN owner |->
                                    IF c \in fresh THEN "file"
                                    ELSE IF c \in old THEN "pend" ELSE owner[c]]
                     /\ content' = [c \in DOMAIN content |->
                                    IF c \in fresh THEN "zero" ELSE content[c]]
                     /\ ranges' = ToRanges(newflat, 1)
                     /\ UNCHANGED paths
                     /\ AfterDirect(ranges')
    /\ UNCHANGED <<inputVars, readonly, tmpOpen, bridged_extents, todo, pollVars,
                   defragVars, orig0, defragCalls, raceVars, outcome, returned, err, minusVars, utilVars>>

\* special file: truncate_file, CloseHandle
FwTruncate ==
    /\ pc = "wipe"
    /\ is_special
    /\ owner' = [c \in DOMAIN owner |-> IF owner[c] = "file" THEN "pend" ELSE owner[c]]
    /\ ranges' = <<>>
    /\ fileOpen' = FALSE
    /\ pc' = "poll"
    /\ UNCHANGED <<inputVars, readonly, content, paths, volOpen, tmpOpen, wipeVars,
                   pollVars, defragVars, ghostVars, raceVars, outcome, returned, err, minusVars, utilVars>>

(***************************************************************************)
(* poll_clusters_freed                                                     *)
(***************************************************************************)
\* the extents poll_clusters_freed was called for
PollTarget == IF orig_is_gen THEN residue ELSE orig_extents

\* if not orig_extents: return True  (a generator is never falsy)
PollEnter ==
    /\ pc = "poll"
    /\ IF ~orig_is_gen /\ orig_extents = <<>>
       THEN pollResult' = "true" /\ pc' = "choose"
       ELSE pollResult' = pollResult /\ pc' = "polling"
    /\ UNCHANGED <<inputVars, readonly, fsVars, handleVars, wipeVars, polls, freeSeen,
                   defragVars, ghostVars, raceVars, outcome, returned, err, minusVars, utilVars>>

\* one pass of the for loop: get_volume_bitmap, check_extents, compare, Sleep
PollSample ==
    /\ pc = "polling"
    /\ polls < PollMax
    /\ LET counts == check_extents(orig_extents, Bitmap)
           actual == check_extents(PollTarget, Bitmap)
       IN /\ polls' = polls + 1
          /\ freeSeen' = (freeSeen \/ actual.free > actual.allocated)
          /\ orig_extents' = IF orig_is_gen THEN <<>> ELSE orig_extents
          /\ IF counts.free > counts.allocated
             THEN pollResult' = "true" /\ pc' = "choose"
             ELSE pollResult' = pollResult /\ pc' = "polling"
    /\ UNCHANGED <<inputVars, readonly, fsVars, handleVars, orig_is_gen,
                   bridged_extents, todo, defragVars, ghostVars, raceVars, outcome, returned,
                   err, minusVars, utilVars>>

\* the for loop has run out: return False
PollTimeout ==
    /\ pc = "polling"
    /\ polls = PollMax
    /\ pollResult' = "false"
    /\ pc' = "choose"
    /\ UNCHANGED <<inputVars, readonly, fsVars, handleVars, wipeVars, polls, freeSeen,
                   defragVars, ghostVars, raceVars, outcome, returned, err, minusVars, utilVars>>

(***************************************************************************)
(* file_wipe: the defrag wipe of what is left                              *)
(***************************************************************************)
\* the result of poll_clusters_freed is dropped; tmp_file_path,
\* choose_if_bridged, entry of the for loop over orig_extents
FwChoose ==
    /\ pc = "choose"
    /\ orig_extents' = IF is_special
                       THEN choose_if_bridged(Bitmap, orig_extents, bridged_extents)
                       ELSE orig_extents
    /\ todo' = orig_extents'
    /\ pc' = "defrag"
    /\ pollResult' = "none"
    /\ freeSeen' = FALSE
    /\ polls' = 0
    /\ UNCHANGED <<inputVars, readonly, fsVars, handleVars, orig_is_gen,
                   bridged_extents, defragVars, ghostVars, raceVars,
                   outcome, returned, err, minusVars, utilVars>>

\* the for loop calls wipe_extent_by_defrag for the next extent
FwNextExtent ==
    /\ pc = "defrag"
    /\ todo # <<>>
    /\ stack' = <<Head(todo)>>
    /\ todo' = Tail(todo)
    /\ defragCalls' = Append(defragCalls, Head(todo))
    /\ pc' = "d_check"
    /\ returned' = "none"
    /\ UNCHANGED <<inputVars, readonly, fsVars, handleVars, orig_extents, orig_is_gen,
                   bridged_extents, pollVars, cur, tmpExt, mvIdx, new_vcn, written,
                   orig0, residue, raceVars, outcome, err, minusVars, utilVars>>

\* clean_up(None, volume_handle, tmp_file_path); return
FwFinish ==
    /\ pc = "defrag"
    /\ todo = <<>>
    /\ LET h == clean_up("None", "volume_handle", TmpFilePath(file_name),
                         [fileOpen |-> fileOpen, volOpen |-> volOpen, paths |-> paths])
       IN /\ volOpen' = h.volOpen
          /\ fileOpen' = h.fileOpen
          /\ paths' = h.paths
          /\ owner' = [c \in DOMAIN owner |->
                         IF owner[c] = "tmp" /\ TmpFilePath(file_name) \notin h.paths
                         THEN "free" ELSE owner[c]]
    /\ pc' = "fw_done"
    /\ LocalsGone
    /\ UNCHANGED <<inputVars, readonly, ranges, content, tmpOpen, pollResult, freeSeen,
                   ghostVars, raceVars, outcome, returned, err, minusVars, utilVars>>

(***************************************************************************)
(* wipe_extent_by_defrag.  The recursion is a stack of extents; the calls  *)
(* on the sub-extents of a split run in order before the caller goes on.   *)
(***************************************************************************)
\* get_volume_bitmap, check_extents, and the decision on the counts
DCheck ==
    /\ pc = "d_check"
    /\ stack # <<>>
    /\ LET lcn_start == Head(stack)[1]
           lcn_end == Head(stack)[2]
           write_length == (lcn_end - lcn_start + 1) * cluster_size
           counts == check_extents(<<Head(stack)>>, Bitmap)
           decision == DefragDecision(counts.free, counts.allocated, write_length,
                                      lcn_start, lcn_end)
       IN /\ decision = "false" =>
               /\ stack' = Tail(stack)
               /\ pc' = "d_check"
               /\ outcome' = "skipped"
               /\ returned' = Outermost(returned, decision)
               /\ UNCHANGED cur
          /\ decision = "split" =>
               /\ stack' = split_extent(lcn_start, lcn_end) \o Tail(stack)
               /\ pc' = "d_check"
               /\ outcome' = "split"
               /\ returned' = Outermost(returned, decision)
               /\ UNCHANGED cur
          /\ decision = "wipe" =>
               /\ stack' = Tail(stack)
               /\ cur' = Head(stack)
               /\ pc' = "d_create"
               /\ outcome' = "running"
               /\ UNCHANGED returned
    /\ race' = FALSE
    /\ UNCHANGED <<inputVars, readonly, fsVars, handleVars, wipeVars, pollVars,
                   tmpExt, mvIdx, new_vcn, ghostVars, steals, stolen, err, minusVars, utilVars>>

\* the outermost wipe_extent_by_defrag has returned to file_wipe
DReturn ==
    /\ pc = "d_check"
    /\ stack = <<>>
    /\ pc' = "defrag"
    /\ UNCHANGED <<inputVars, readonly, fsVars, handleVars, wipeVars, pollVars,
                   defragVars, ghostVars, raceVars, outcome, returned, err, minusVars, utilVars>>

\* CreateFile(CREATE_ALWAYS), write_zero_fill, get_extents: the file system
\* releases what the file of that name held and allocates free clusters
DCreate ==
    /\ pc = "d_create"
    /\ LET n == ClustersWritten(write_zero_fill((cur[2] - cur[1] + 1) * cluster_size))
           free == {c \in DOMAIN owner : owner[c] \in {"free", "tmp"}}
       IN \E placement \in Placements(free, n, MaxFrag) :
            /\ owner' = [c \in DOMAIN owner |->
                           IF c \in ClustersOf(placement) THEN "tmp"
                           ELSE IF owner[c] = "tmp" THEN "free" ELSE owner[c]]
            /\ content' = [c \in DOMAIN content |->
                           IF c \in ClustersOf(placement) THEN "zero" ELSE content[c]]
            /\ tmpExt' = placement
    /\ paths' = paths \cup {TmpFilePath(file_name)}
    /\ tmpOpen' = TRUE
    /\ mvIdx' = 1
    /\ new_vcn' = 0
    /\ pc' = "d_move"
    /\ UNCHANGED <<inputVars, readonly, ranges, fileOpen, volOpen, wipeVars, pollVars,
                   stack, cur, ghostVars, raceVars, outcome, returned, err, minusVars, utilVars>>

MoveCount == tmpExt[mvIdx][2] - tmpExt[mvIdx][1] + 1

MoveDest == cur[1] + new_vcn

\* the extent of the zero-fill file already lies where it should
DMoveSkip ==
    /\ pc = "d_move"
    /\ mvIdx <= Len(tmpExt)
    /\ tmpExt[mvIdx][1] = MoveDest
    /\ new_vcn' = new_vcn + MoveCount
    /\ mvIdx' = mvIdx + 1
    /\ UNCHANGED <<pc, inputVars, readonly, fsVars, handleVars, wipeVars, pollVars,
                   stack, cur, tmpExt, ghostVars, raceVars, outcome, returned, err, minusVars, utilVars>>

\* move_file succeeds: the target clusters were free
DMoveOk ==
    /\ pc = "d_move"
    /\ mvIdx <= Len(tmpExt)
    /\ tmpExt[mvIdx][1] # MoveDest
    /\ FreeRun(MoveDest, MoveCount)
    /\ owner' = [c \in DOMAIN owner |->
                   IF c \in MoveDest..(MoveDest + MoveCount - 1) THEN "tmp"
                   ELSE IF c \in ExtentClusters(tmpExt[mvIdx]) THEN "free"
                   ELSE owner[c]]
    /\ content' = [c \in DOMAIN content |->
                   IF c \in MoveDest..(MoveDest + MoveCount - 1) THEN "zero"
                   ELSE content[c]]
    /\ new_vcn' = new_vcn + MoveCount
    /\ mvIdx' = mvIdx + 1
    /\ UNCHANGED <<pc, inputVars, readonly, ranges, paths, handleVars, wipeVars,
                   pollVars, stack, cur, tmpExt, ghostVars, raceVars, outcome, returned, err,
                   minusVars, utilVars>>

\* move_file raises: a target cluster is in use.  CloseHandle, then split
DMoveFail ==
    /\ pc = "d_move"
    /\ mvIdx <= Len(tmpExt)
    /\ tmpExt[mvIdx][1] # MoveDest
    /\ ~FreeRun(MoveDest, MoveCount)
    /\ tmpOpen' = FALSE
    /\ outcome' = "movefail"
    /\ LET handled == MoveFailureOutcome(cur[1], cur[2])
       IN /\ handled = "false" => stack' = stack
          /\ handled = "split" => stack' = split_extent(cur[1], cur[2]) \o stack
          /\ returned' = Outermost(returned, handled)
    /\ pc' = "d_check"
    /\ tmpExt' = <<>>
    /\ mvIdx' = 1
    /\ new_vcn' = 0
    /\ UNCHANGED <<inputVars, readonly, fsVars, fileOpen, volOpen, wipeVars, pollVars,
                   cur, ghostVars, raceVars, err, minusVars, utilVars>>

\* move_file raises although the target clusters are free (the volume is
\* locked, the device fails, access is denied): the same except clause
DMoveRaise ==
    /\ pc = "d_move"
    /\ mvIdx <= Len(tmpExt)
    /\ tmpExt[mvIdx][1] # MoveDest
    /\ FreeRun(MoveDest, MoveCount)
    /\ tmpOpen' = FALSE
    /\ outcome' = "movefail"
    /\ LET handled == MoveFailureOutcome(cur[1], cur[2])
       IN /\ handled = "false" => stack' = stack
          /\ handled = "split" => stack' = split_extent(cur[1], cur[2]) \o stack
          /\ returned' = Outermost(returned, handled)
    /\ pc' = "d_check"
    /\ tmpExt' = <<>>
    /\ mvIdx' = 1
    /\ new_vcn' = 0
    /\ UNCHANGED <<inputVars, readonly, fsVars, fileOpen, volOpen, wipeVars, pollVars,
                   cur, ghostVars, raceVars, err, minusVars, utilVars>>

\* the loop over new_extents is over: CloseHandle, DeleteFile, return True
DFinish ==
    /\ pc = "d_move"
    /\ mvIdx > Len(tmpExt)
    /\ tmpOpen' = FALSE
    /\ paths' = paths \ {TmpFilePath(file_name)}
    /\ owner' = [c \in DOMAIN owner |-> IF owner[c] = "tmp" THEN "free" ELSE owner[c]]
    /\ outcome' = "moved"
    /\ returned' = Outermost(returned, "moved")
    /\ pc' = "d_check"
    /\ tmpExt' = <<>>
    /\ mvIdx' = 1
    /\ new_vcn' = 0
    /\ UNCHANGED <<inputVars, readonly, ranges, content, fileOpen, volOpen, wipeVars,
                   pollVars, stack, cur, ghostVars, raceVars, err, minusVars, utilVars>>

(***************************************************************************)
(* The rest of the system.                                                 *)
(***************************************************************************)
\* the clusters file_wipe is after
TargetClusters ==
    ClustersOf(PollTarget) \cup ClustersOf(bridged_extents) \cup ClustersOf(todo)
    \cup ClustersOf(stack) \cup (IF pc \in {"d_create", "d_move"} THEN ExtentClusters(cur) ELSE {})

\* another process allocates a free cluster file_wipe is after and writes to it
Steal ==
    /\ pc \in {"d_check", "d_create", "d_move"}
    /\ steals < MaxSteals
    /\ \E c \in TargetClusters :
         /\ owner[c] = "free"
         /\ owner' = [owner EXCEPT ![c] = "other"]
         /\ content' = [content EXCEPT ![c] = "other"]
         /\ stolen' = stolen \cup {c}
         /\ race' = (race \/ (pc \in {"d_create", "d_move"} /\ c \in ExtentClusters(cur)))
    /\ steals' = steals + 1
    /\ UNCHANGED <<pc, inputVars, readonly, ranges, paths, handleVars, wipeVars,
                   pollVars, defragVars, ghostVars, outcome, returned, err, minusVars, utilVars>>

\* the file system's checkpoint: released clusters show as free
Checkpoint ==
    /\ pc \in {"poll", "polling", "choose", "defrag", "d_check", "d_create", "d_move"}
    /\ \E c \in DOMAIN owner : owner[c] = "pend"
    /\ owner' = [c \in DOMAIN owner |-> IF owner[c] = "pend" THEN "free" ELSE owner[c]]
    /\ UNCHANGED <<pc, inputVars, readonly, ranges, content, paths, handleVars,
                   wipeVars, pollVars, defragVars, ghostVars, raceVars, outcome, returned, err,
                   minusVars, utilVars>>

\* an OS call of the next step raises (access denied, sharing violation,
\* device error, disk full); file_wipe has no handler, the exception leaves it
FaultPcs == {"open1", "classify", "openvol", "openrw", "wipe", "polling", "choose",
             "d_check", "d_create", "d_move"}

Fault ==
    /\ pc \in FaultPcs
    /\ pc' = "raised"
    /\ err' = "IOError"
    /\ LocalsGone
    /\ UNCHANGED <<inputVars, readonly, fsVars, handleVars, pollResult, freeSeen,
                   ghostVars, raceVars, outcome, returned, minusVars, utilVars>>

(***************************************************************************)
(* The callers: wipe_contents and delete (FileUtilities.py).               *)
(***************************************************************************)
\* wipe_contents after file_wipe returned: f = open(path, 'w'); truncate_f; close
WcTruncate ==
    /\ pc = "fw_done"
    /\ paths' = paths \cup {file_name}
    /\ owner' = [c \in DOMAIN owner |-> IF owner[c] = "file" THEN "pend" ELSE owner[c]]
    /\ ranges' = <<>>
    /\ pc' = "wc_done"
    /\ UNCHANGED <<inputVars, readonly, content, handleVars, wipeVars, pollVars,
                   defragVars, ghostVars, raceVars, outcome, returned, err, minusVars, utilVars>>

\* delete: os.remove(wipe_name(path))
DeleteRemove ==
    /\ pc = "wc_done"
    /\ paths' = paths \ {file_name}
    /\ pc' = "deleted"
    /\ UNCHANGED <<inputVars, readonly, ranges, owner, content, handleVars, wipeVars,
                   pollVars, defragVars, ghostVars, raceVars, outcome, returned, err, minusVars, utilVars>>

Next ==
    \/ FwVolumeInfo \/ FwOpenRead \/ FwClassify \/ FwOpenVolume \/ FwOpenWrite
    \/ FwDirectInPlace \/ FwDirectRelocated \/ FwTruncate
    \/ PollEnter \/ PollSample \/ PollTimeout
    \/ FwChoose \/ FwNextExtent \/ FwFinish
    \/ DCheck \/ DReturn \/ DCreate \/ DMoveSkip \/ DMoveOk \/ DMoveFail \/ DFinish
    \/ Checkpoint \/ Fault
    \/ WcTruncate \/ DeleteRemove

Spec == Init /\ [][Next]_vars

(***************************************************************************)
(* wipe_extent_by_defrag on its own: file_wipe stands before its for loop  *)
(* with one extent to wipe, on a volume whose allocation nobody changes.   *)
(***************************************************************************)
\* small extents on a mostly free volume, and a 20-cluster extent (two levels
\* of split_extent) on a mostly allocated one
DefragInputs ==
    {[clusters |-> NumClusters, extent |-> e, others |-> o] :
        e \in {<<0, 5>>, <<1, 5>>, <<2, 4>>, <<3, 3>>},
        o \in {{}, {3}, {3, 4}, {2, 5}, {0, 6}}}
    \cup
    {[clusters |-> DefragClusters, extent |-> <<1, 20>>,
      others |-> (0..(DefragClusters - 1)) \ f] :
        f \in {{3, 4, 21}, {0, 3, 15}, {0} \cup (11..20), {1, 10, 11, 20, 21}}}

InitAtLoop(clusters, extent, others) ==
    /\ pc = "defrag"
    /\ vol = [local |-> TRUE, drive_type |-> "DRIVE_FIXED", file_system |-> "NTFS"]
    /\ is_special = TRUE
    /\ readonly = FALSE
    /\ ranges = <<>>
    /\ file_size = cluster_size * (extent[2] - extent[1] + 1)
    /\ owner = [c \in 0..(clusters - 1) |-> IF c \in others THEN "other" ELSE "free"]
    /\ content = [c \in 0..(clusters - 1) |->
                    IF c \in others THEN "other"
                    ELSE IF c \in ExtentClusters(extent) THEN "data" ELSE "zero"]
    /\ total_clusters = clusters
    /\ paths = {file_name}
    /\ fileOpen = FALSE
    /\ volOpen = TRUE
    /\ tmpOpen = FALSE
    /\ orig_extents = <<extent>>
    /\ orig_is_gen = FALSE
    /\ bridged_extents = <<extent>>
    /\ todo = <<extent>>
    /\ polls = 0
    /\ pollResult = "none"
    /\ freeSeen = FALSE
    /\ stack = <<>>
    /\ cur = <<0, 0>>
    /\ tmpExt = <<>>
    /\ mvIdx = 1
    /\ new_vcn = 0
    /\ steals = 0
    /\ err = "none"
    /\ written = -1
    /\ orig0 = <<extent>>
    /\ residue = <<>>
    /\ defragCalls = <<>>
    /\ stolen = {}
    /\ race = FALSE
    /\ outcome = "none"
    /\ returned = "none"
    /\ InitIdleMinus
    /\ InitIdleUtil

InitDefrag ==
    /\ cluster_size \in ClusterSizes
    /\ \E in \in DefragInputs : InitAtLoop(in.clusters, in.extent, in.others)

NextDefrag ==
    \/ FwNextExtent \/ FwFinish
    \/ DCheck \/ DReturn \/ DCreate \/ DMoveSkip \/ DMoveOk \/ DMoveFail \/ DFinish

SpecDefrag == InitDefrag /\ [][NextDefrag]_vars

(***************************************************************************)
(* wipe_extent_by_defrag while another process allocates clusters.         *)
(***************************************************************************)
RaceInputs ==
    {[clusters |-> NumClusters, extent |-> e, others |-> o] :
        e \in {<<1, 3>>, <<2, 2>>, <<0, 4>>, <<4, 5>>},
        o \in {{}, {2}, {6}}}

InitRace ==
    /\ cluster_size \in ClusterSizes
    /\ \E in \in RaceInputs : InitAtLoop(in.clusters, in.extent, in.others)

NextRace ==
    \/ FwNextExtent \/ FwFinish
    \/ DCheck \/ DReturn \/ DCreate \/ DMoveSkip \/ DMoveOk \/ DMoveFail \/ DFinish
    \/ Steal

SpecRace == InitRace /\ [][NextRace]_vars

(***************************************************************************)
(* wipe_extent_by_defrag while another process allocates clusters and      *)
(* move_file may fail for any reason.  The steps of the program are taken  *)
(* as long as one is possible; the other process need not act.             *)
(***************************************************************************)
FailInputs ==
    {[clusters |-> NumClusters, extent |-> e, others |-> o] :
        e \in {<<1, 3>>, <<2, 2>>}, o \in {{}, {2}}}

InitFail ==
    /\ cluster_size = 4096
    /\ \E in \in FailInputs : InitAtLoop(in.clusters, in.extent, in.others)

\* the steps of file_wipe and wipe_extent_by_defrag, an OS call that raises
\* among them
DefragSteps == NextDefrag \/ DMoveRaise \/ Fault

NextFail == DefragSteps \/ Steal

SpecFail == InitFail /\ [][NextFail]_vars

SpecFailFair == SpecFail /\ WF_vars(DefragSteps)

ExtentSize(x) == x[2] - x[1] + 1

\* the step starts calls on sub-extents of `parent`, ahead of the pending
\* calls `rest`: each of them lies in the parent and is strictly smaller
StrictlySmaller(parent, rest, pushed) ==
    LET k == Len(pushed) - Len(rest)
    IN /\ k >= 0
       /\ SubSeq(pushed, k + 1, Len(pushed)) = rest
       /\ \A i \in 1..k : /\ parent[1] <= pushed[i][1]
                            /\ pushed[i][2] <= parent[2]
                            /\ ExtentSize(pushed[i]) < ExtentSize(parent)

\* what a step of wipe_extent_by_defrag that does not raise does to the
\* pending calls
SmallerCalls ==
    /\ (pc = "d_check" /\ stack # <<>> /\ steals' = steals /\ pc' # "raised")
         => /\ StrictlySmaller(Head(stack), Tail(stack), stack')
            /\ (Head(stack)[1] = Head(stack)[2] /\ Head(stack)[1] \in Allocated)
                  => (stack' = Tail(stack) /\ pc' = "d_check")
    /\ (pc = "d_move" /\ pc' = "d_check" /\ outcome' = "movefail")
         => /\ StrictlySmaller(cur, stack, stack')
            /\ (cur[1] = cur[2] => stack' = stack)

C26_TemporaryGoneAtReturn ==
    (/\ pc = "d_check"
     /\ \/ outcome = "moved"
        \/ outcome = "movefail" /\ cur[1] >= cur[2])
        => (~tmpOpen /\ TmpFilePath(file_name) \notin paths)

\* C28 as the specification states it: when the call file_wipe made has
\* returned True, every cluster of its extent that no other file holds has
\* been overwritten with zeros, also when the extent was wiped by calls on
\* sub-extents.
C28_TrueMeansWiped ==
    (pc = "defrag" /\ defragCalls # <<>> /\ returned = "True")
        => \A c \in ExtentClusters(Last(defragCalls)) :
               owner[c] # "other" => content[c] = "zero"

(***************************************************************************)
(* extents_a_minus_b on its own.                                           *)
(***************************************************************************)
Extents == {x \in (0..MaxCluster) \X (0..MaxCluster) : x[1] <= x[2]}

\* lists of at most two extents that do not overlap, in any order
ExtentLists ==
    {<<>>} \cup {<<x>> : x \in Extents}
    \cup {p \in {<<x, y>> : x \in Extents, y \in Extents} :
              ExtentClusters(p[1]) \cap ExtentClusters(p[2]) = {}}

InitIdleRun ==
    /\ pc = "idle"
    /\ vol = [local |-> TRUE, drive_type |-> "DRIVE_FIXED", file_system |-> "NTFS"]
    /\ is_special = FALSE
    /\ readonly = FALSE
    /\ cluster_size = 4096
    /\ file_size = 0
    /\ ranges = <<>>
    /\ owner = [c \in 0..(NumClusters - 1) |-> "free"]
    /\ content = [c \in 0..(NumClusters - 1) |-> "zero"]
    /\ InitRun(NumClusters)

InitMinus ==
    /\ ma \in ExtentLists
    /\ mb \in ExtentLists
    /\ mres = <<>>
    /\ mpc = "call"
    /\ InitIdleRun
    /\ InitIdleUtil

MinusCall ==
    /\ mpc = "call"
    /\ mres' = extents_a_minus_b(ma, mb)
    /\ mpc' = "done"
    /\ UNCHANGED <<pc, inputVars, readonly, fsVars, handleVars, wipeVars, pollVars,
                   defragVars, ghostVars, raceVars, outcome, returned, err, ma, mb, utilVars>>

NextMinus == MinusCall

SpecMinus == InitMinus /\ [][NextMinus]_vars

(***************************************************************************)
(* wipe_extent_by_defrag as a function of a fixed allocation, every move   *)
(* succeeding: the extents it zero-fills and the extents it returns False  *)
(* for.                                                                    *)
(***************************************************************************)
RECURSIVE DefragPlan(_, _, _, _, _)
DefragPlan(lcn_start, lcn_end, csize, allocated, clusters) ==
    LET counts == check_extents(<<<<lcn_start, lcn_end>>>>,
                                get_volume_bitmap(allocated, clusters))
        write_length == (lcn_end - lcn_start + 1) * csize
        decision == DefragDecision(counts.free, counts.allocated, write_length,
                                   lcn_start, lcn_end)
        parts == split_extent(lcn_start, lcn_end)
        RECURSIVE Each(_)
        Each(i) == IF i > Len(parts) THEN [wiped |-> {}, skipped |-> {}]
                   ELSE LET one == DefragPlan(parts[i][1], parts[i][2], csize,
                                              allocated, clusters)
                            rest == Each(i + 1)
                        IN [wiped |-> one.wiped \cup rest.wiped,
                            skipped |-> one.skipped \cup rest.skipped]
    IN IF decision = "false"
       THEN [wiped |-> {}, skipped |-> {<<lcn_start, lcn_end>>}]
       ELSE IF decision = "split" THEN Each(1)
       ELSE [wiped |-> {<<lcn_start, lcn_end>>}, skipped |-> {}]

\* extent (1000,1999), 4 KiB clusters, clusters 1500 and 1501 allocated
DefragExample == DefragPlan(1000, 1999, 4096, {1500, 1501}, 2000)

(***************************************************************************)
(* Properties.                                                             *)
(***************************************************************************)
\* C1: after file_wipe has returned normally on a regular file of several
\* extents, every cluster of the file's original extents holds only zeros.
C1_OriginalClustersZero ==
    (pc = "fw_done" /\ ~is_special /\ Len(orig0) >= 2)
        => \A c \in ClustersOf(orig0) : content[c] = "zero"

\* C2: when file_wipe has returned normally on a regular file, every extent
\* of the residue (original extents minus new extents) has been passed to
\* wipe_extent_by_defrag.
C2_ResidueDefragged ==
    (pc = "fw_done" /\ ~is_special)
        => \A i \in DOMAIN residue : residue[i] \in SeqRange(defragCalls)

\* C3: wipe_file_direct writes (sum of the extent lengths) x cluster_size
\* bytes when the file has extents, and file_size bytes when it has none.
C3_DirectWriteLength ==
    written # -1
        => written = IF orig0 # <<>> THEN SumLengths(orig0) * cluster_size
                     ELSE file_size

\* C4: the extents extents_a_minus_b(a, b) yields cover exactly the clusters
\* that lie in an extent of a and in no extent of b.
C4_MinusIsSetDifference ==
    mpc = "done" => ClustersOf(mres) = ClustersOf(ma) \ ClustersOf(mb)

\* C5: on every exit of file_wipe, normal or by an exception, the file
\* handle and the volume handle are closed and the zero-fill file is gone.
C5_ReleasedOnEveryExit ==
    pc \in {"fw_done", "raised"}
        => /\ ~fileOpen
           /\ ~volOpen
           /\ ~tmpOpen
           /\ TmpFilePath(file_name) \notin paths

\* C6 as the specification states it: once file_wipe has returned normally
\* the path no longer exists.
C6_UnlinkedOnReturn == pc = "fw_done" => file_name \notin paths

\* C6, amended: once file_wipe has returned normally the path still exists;
\* it is gone once delete has removed it after wipe_contents.
C6_UnlinkedByDelete ==
    /\ pc = "fw_done" => file_name \in paths
    /\ pc = "deleted" => file_name \notin paths

\* file_wipe returned through its final clean_up, which deleted the
\* zero-fill file it had created
C6_Returned ==
    /\ pc = "fw_done"
    /\ defragCalls # <<>>
    /\ \E c \in ClustersOf(defragCalls) : content[c] = "zero"
    /\ TmpFilePath(file_name) \notin paths

\* the volume of the path is one the specification calls unsupported
UnsupportedVolume ==
    \/ ~vol.local
    \/ vol.drive_type \in {"DRIVE_REMOTE", "DRIVE_CDROM", "DRIVE_UNKNOWN"}
    \/ vol.file_system \in {"UDF", "udf"}

\* C7: on a path without a local volume, on a network, CD-ROM or unknown
\* drive, or on UDF, the only step file_wipe takes is to raise
\* UnsupportedFileSystemError, with no handle opened and nothing of the file
\* system or of the file's attributes changed.
C7_UnsupportedRaisesFirst ==
    [][UnsupportedVolume
         => /\ pc = "start"
            /\ pc' = "raised"
            /\ err' = "UnsupportedFileSystemError"
            /\ ~fileOpen' /\ ~volOpen' /\ ~tmpOpen'
            /\ UNCHANGED <<fsVars, readonly>>]_vars

C7_Raised ==
    /\ pc = "raised"
    /\ err = "UnsupportedFileSystemError"
    /\ vol.file_system = "udf"
    /\ ~fileOpen /\ ~volOpen

\* C8: poll_clusters_freed takes at most 70 samples, has returned True once
\* a sample has seen more free than allocated clusters among the extents it
\* was called for, and has returned True or False when file_wipe goes on.
C8_PollResult ==
    /\ polls <= 70
    /\ freeSeen => pollResult = "true"
    /\ pc = "choose" => pollResult \in {"true", "false"}

\* C9: with an allocation that does not change, wipe_extent_by_defrag never
\* writes a cluster another file holds, leaves every other cluster of the
\* extent zero-filled, and on (1000,1999) with 1500 and 1501 allocated wipes
\* the 100-cluster chunks but (1500,1599), the 10-cluster chunks of that one
\* but (1500,1509), the single clusters 1502..1509, and skips 1500 and 1501.
C9_StaticDefrag ==
    /\ \A c \in DOMAIN owner : owner[c] = "other" => content[c] = "other"
    /\ (pc = "defrag" /\ todo = <<>> /\ defragCalls # <<>>)
           => \A c \in ClustersOf(defragCalls) :
                  owner[c] # "other" => content[c] = "zero"
    /\ DefragExample =
           [wiped |-> {<<1000 + 100 * k, 1099 + 100 * k>> : k \in (0..9) \ {5}}
                      \cup {<<1500 + 10 * k, 1509 + 10 * k>> : k \in 1..9}
                      \cup {<<c, c>> : c \in 1502..1509},
            skipped |-> {<<1500, 1500>>, <<1501, 1501>>}]

\* the call on (1,20) has returned; it skipped allocated clusters and
\* zero-filled free ones
C9_Returned ==
    /\ pc = "defrag"
    /\ todo = <<>>
    /\ defragCalls = <<<<1, 20>>>>
    /\ \E c \in 1..20 : owner[c] = "other"
    /\ \E c \in 1..20 : owner[c] = "free" /\ content[c] = "zero"

\* C10: when another process allocates a cluster of the extent between the
\* bitmap snapshot and the move, the move fails and no error is raised, an
\* extent of more than one cluster is subdivided, the stolen cluster stays
\* with the other process holding what that process wrote, and every other
\* cluster of the extent not held by another file ends zero-filled.
C10_StolenCluster ==
    /\ err = "none" /\ pc # "raised"
    /\ (race /\ outcome # "running") => outcome = "movefail"
    /\ (pc = "d_check" /\ outcome = "movefail" /\ cur[1] < cur[2])
           => ExtentClusters(cur) \subseteq ClustersOf(stack)
    /\ \A c \in stolen : owner[c] = "other" /\ content[c] = "other"
    /\ (pc = "defrag" /\ todo = <<>> /\ defragCalls # <<>>)
           => \A c \in ClustersOf(defragCalls) :
                  owner[c] # "other" => content[c] = "zero"

\* a cluster of the running extent was stolen after the snapshot, the move
\* has failed and the extent has been split
C10_MoveFailed ==
    /\ pc = "d_check"
    /\ race
    /\ outcome = "movefail"
    /\ cur[1] < cur[2]
    /\ stolen \cap ExtentClusters(cur) # {}

(***************************************************************************)
(* split_extent on its own.                                                *)
(***************************************************************************)
\* extents of 1 to MaxSplitCount clusters, and extents around the lengths
\* where the chunk size goes from 100 to 1000
SplitInputs ==
    {<<s, s + n - 1>> : s \in 0..MaxSplitStart,
                        n \in (1..MaxSplitCount) \cup {1995, 1996, 2000}}

InitSplit ==
    /\ fn = "split_extent"
    /\ arg \in SplitInputs
    /\ res = <<>>
    /\ ppc = "call"
    /\ InitIdleRun
    /\ InitIdleMinus
    /\ InitIdleName
    /\ InitIdlePath

fileWipeVars == <<pc, inputVars, readonly, fsVars, handleVars, wipeVars, pollVars,
                  defragVars, ghostVars, raceVars, outcome, returned, err>>

SplitCall ==
    /\ fn = "split_extent"
    /\ ppc = "call"
    /\ res' = split_extent(arg[1], arg[2])
    /\ ppc' = "done"
    /\ UNCHANGED <<fileWipeVars, minusVars, pathVars, fn, arg, nameVars>>

NextSplit == SplitCall

SpecSplit == InitSplit /\ [][NextSplit]_vars

\* C11: the sub-extents split_extent(s, e) yields are non-empty, ascending
\* without overlap, and together cover exactly the clusters s..e.
C11_SplitCovers ==
    (fn = "split_extent" /\ ppc = "done")
        => /\ \A i \in DOMAIN res : res[i][1] <= res[i][2]
           /\ \A i \in 1..(Len(res) - 1) : res[i][2] < res[i + 1][1]
           /\ ClustersOf(res) = arg[1]..arg[2]

\* an extent of 25 clusters has been split into chunks of 10, 10 and 5
C11_Split25 ==
    /\ fn = "split_extent"
    /\ ppc = "done"
    /\ arg = <<1, 25>>
    /\ res = <<<<1, 10>>, <<11, 20>>, <<21, 25>>>>

IsPowerOfTen(n) == \E k \in 0..6 : n = Power(10, k)

ExtentLength(x) == x[2] - x[1] + 1

\* C12 as the specification states it: every sub-extent split_extent yields
\* has a length that is a power of 10.
C12_EveryLengthPowerOfTen ==
    (fn = "split_extent" /\ ppc = "done")
        => \A i \in DOMAIN res : IsPowerOfTen(ExtentLength(res[i]))

\* C12, amended: for the least k with count <= 10^(k+1.3), every sub-extent
\* but the last has length 10^k and the last has a length from 1 to 10^k.
C12_LengthsButLast ==
    (fn = "split_extent" /\ ppc = "done")
        => LET count == arg[2] - arg[1] + 1
           IN \E k \in 0..5 :
                /\ count <= SplitThreshold(k)
                /\ k > 0 => count > SplitThreshold(k - 1)
                /\ \A i \in 1..(Len(res) - 1) : ExtentLength(res[i]) = Power(10, k)
                /\ ExtentLength(Last(res)) \in 1..Power(10, k)

\* an extent of 205 clusters has been split into two chunks of 100 and one of 5
C12_Split205 ==
    /\ fn = "split_extent"
    /\ ppc = "done"
    /\ arg = <<0, 204>>
    /\ Len(res) = 3
    /\ ExtentLength(res[1]) = 100
    /\ ExtentLength(res[3]) = 5

(***************************************************************************)
(* logical_ranges_to_extents on its own.                                   *)
(***************************************************************************)
\* entries <<next_vcn, lcn>> built from a VCN span and an lcn; lcn -1 is a
\* hole of a compressed or sparse file
RECURSIVE RangesFrom(_, _)
RangesFrom(steps, vcn) ==
    IF steps = <<>> THEN <<>>
    ELSE <<<<vcn + Head(steps)[1], Head(steps)[2]>>>>
         \o RangesFrom(Tail(steps), vcn + Head(steps)[1])

\* the clusters the entries with lcn >= 0 occupy, entry by entry
RealExtents(rs) ==
    [i \in DOMAIN rs |->
        IF rs[i][2] < 0 THEN {}
        ELSE LET span == rs[i][1] - (IF i = 1 THEN 0 ELSE rs[i - 1][1])
             IN rs[i][2]..(rs[i][2] + span - 1)]

\* no cluster belongs to two entries, as in every list the file system returns
Disjoint(rs) ==
    \A i, j \in DOMAIN rs :
        i < j => RealExtents(rs)[i] \cap RealExtents(rs)[j] = {}

RangeSteps == {1, 3} \X {-1, 2, 5, 30}

RangeInputs ==
    {r \in {RangesFrom(steps, 0) :
              steps \in UNION {[1..n -> RangeSteps] : n \in 0..MaxRanges}} :
        Disjoint(r)}
    \cup {<<<<0, 7>>, <<2, 3>>, <<2, -1>>, <<4, 9>>>>,
          <<<<3, 2>>, <<16, -1>>, <<20, 18>>, <<32, -1>>, <<35, 34>>>>,
          <<<<2, 40>>, <<2, -1>>, <<5, 2>>, <<16, -1>>, <<17, 9>>, <<32, -1>>>>,
          <<<<16, -1>>, <<20, 7>>, <<32, -1>>, <<33, 24>>, <<48, -1>>, <<50, 40>>>>}

InitRanges ==
    /\ fn = "logical_ranges_to_extents"
    /\ arg \in {[ranges |-> r, bridge_compressed |-> b] :
                  r \in RangeInputs, b \in BOOLEAN}
    /\ res = <<>>
    /\ ppc = "call"
    /\ InitIdleRun
    /\ InitIdleMinus
    /\ InitIdleName
    /\ InitIdlePath

RangesCall ==
    /\ fn = "logical_ranges_to_extents"
    /\ ppc = "call"
    /\ res' = logical_ranges_to_extents(arg.ranges, arg.bridge_compressed)
    /\ ppc' = "done"
    /\ UNCHANGED <<fileWipeVars, minusVars, pathVars, fn, arg, nameVars>>

NextRanges == RangesCall

SpecRanges == InitRanges /\ [][NextRanges]_vars

\* the positions of the entries with lcn >= 0, in order
RealIndexes(rs) ==
    LET real == {i \in DOMAIN rs : rs[i][2] >= 0}
    IN [k \in 1..Cardinality(real) |->
          CHOOSE i \in real : Cardinality({j \in real : j <= i}) = k]

VcnSpan(rs, i) == rs[i][1] - (IF i = 1 THEN 0 ELSE rs[i - 1][1])

RECURSIVE RealSpanSum(_, _)
RealSpanSum(rs, i) ==
    IF i > Len(rs) THEN 0
    ELSE (IF rs[i][2] >= 0 THEN VcnSpan(rs, i) ELSE 0)
         + RealSpanSum(rs, i + 1)

\* C13: without bridging, logical_ranges_to_extents emits one extent per
\* entry with lcn >= 0, starting at that lcn and as long as the entry's VCN
\* span, none for a hole, and the lengths add up to the real VCN spans.
C13_PlainExtents ==
    (fn = "logical_ranges_to_extents" /\ ppc = "done" /\ ~arg.bridge_compressed)
        => LET real == RealIndexes(arg.ranges)
           IN /\ Len(res) = Len(real)
              /\ \A k \in DOMAIN res :
                    /\ res[k][1] = arg.ranges[real[k]][2]
                    /\ ExtentLength(res[k]) = VcnSpan(arg.ranges, real[k])
              /\ SumLengths(res) = RealSpanSum(arg.ranges, 1)

\* a list with a hole between two real entries has been converted
C13_HoleSkipped ==
    /\ fn = "logical_ranges_to_extents"
    /\ ppc = "done"
    /\ ~arg.bridge_compressed
    /\ arg.ranges = <<<<3, 2>>, <<6, -1>>, <<7, 5>>>>
    /\ res = <<<<2, 4>>, <<5, 5>>>>

\* real entries separated by single holes, each starting 1 to 16 clusters
\* after the real entry before it
IsBridgeRun(rs) ==
    /\ Len(rs) >= 3
    /\ Len(rs) % 2 = 1
    /\ \A i \in DOMAIN rs : (i % 2 = 1) <=> (rs[i][2] >= 0)
    /\ \A i \in DOMAIN rs :
          (i % 2 = 1 /\ i > 1) => (rs[i][2] - rs[i - 2][2]) \in 1..16

InitChoose ==
    /\ fn = "choose_if_bridged"
    /\ arg \in {[orig_extents |-> logical_ranges_to_extents(r, FALSE),
                 bridged_extents |-> logical_ranges_to_extents(r, TRUE),
                 allocated |-> a] :
                  r \in SpecialLayouts, a \in SUBSET (0..(NumClusters - 1))}
    /\ res = <<>>
    /\ ppc = "call"
    /\ InitIdleRun
    /\ InitIdleMinus
    /\ InitIdleName
    /\ InitIdlePath

ChooseCall ==
    /\ fn = "choose_if_bridged"
    /\ ppc = "call"
    /\ res' = choose_if_bridged(get_volume_bitmap(arg.allocated, NumClusters),
                                arg.orig_extents, arg.bridged_extents)
    /\ ppc' = "done"
    /\ UNCHANGED <<fileWipeVars, minusVars, pathVars, fn, arg, nameVars>>

NextChoose == ChooseCall

SpecChoose == InitChoose /\ [][NextChoose]_vars

\* C15: choose_if_bridged returns the bridged extents (less the clusters
\* other files hold inside them) exactly when (number of original extents -
\* number of bridged extents) - 10 x (allocated clusters in the bridged
\* extents - allocated clusters in the original extents) > 0, and the
\* original extents otherwise.
C15_BridgedWhenCheaper ==
    (fn = "choose_if_bridged" /\ ppc = "done")
        => LET inOrig == ClustersOf(arg.orig_extents) \cap arg.allocated
               inBridged == ClustersOf(arg.bridged_extents) \cap arg.allocated
               cost == (Len(arg.orig_extents) - Len(arg.bridged_extents))
                         - 10 * (Cardinality(inBridged) - Cardinality(inOrig))
           IN IF cost > 0
              THEN ClustersOf(res) = ClustersOf(arg.bridged_extents) \ arg.allocated
              ELSE res = arg.orig_extents

\* C30 as the specification states it: when the bridged extents cover the
\* original extents, the list choose_if_bridged returns contains every
\* cluster of the original extents that the bitmap shows as free.
C30_FreeOriginalsKept ==
    (/\ fn = "choose_if_bridged"
     /\ ppc = "done"
     /\ ClustersOf(arg.orig_extents) \subseteq ClustersOf(arg.bridged_extents))
        => (ClustersOf(arg.orig_extents) \ arg.allocated) \subseteq ClustersOf(res)

(***************************************************************************)
(* wipe_name (FileUtilities.py).  A name is <<length, characters>>; the    *)
(* file to rename is the only entry of its directory the model follows.    *)
(***************************************************************************)
\* __random_string(length): any string of that length
random_string(length) == {<<length, chars>> : chars \in {"a", "b"}}

\* os.rename that succeeds
RenameKeepsOld(names, src, dst) == names \cup {dst}

Rename(names, src, dst) == (names \ {src}) \cup {dst}

\* if maxlen > 10: maxlen -= 10
NextMaxlenUnbounded(m) == m - LONG_NAME_STEP

NextMaxlen(m) == IF m > LONG_NAME_STEP THEN m - LONG_NAME_STEP ELSE m

\* if i > 100
Exhausted(i) == i > RENAME_RETRIES

NameInputs == {<<1, "a">>, <<8, "a">>, <<226, "a">>}

InitName ==
    /\ pathname1 \in NameInputs
    /\ dir = {pathname1}
    /\ n_pc = "long"
    /\ pathname2 = "None"
    /\ pathname3 = "None"
    /\ n_i = 0
    /\ maxlen = LONG_NAME_LENGTH
    /\ tries1 = 0
    /\ tries2 = 0
    /\ last1 = 0
    /\ last2 = 0
    /\ ok1 = FALSE
    /\ ok2 = FALSE
    /\ InitIdleRun
    /\ InitIdleMinus
    /\ InitIdlePure
    /\ InitIdlePath

\* first loop: os.rename(pathname1, pathname2) succeeds; break; i = 0
WnLongRenamed ==
    /\ n_pc = "long"
    /\ \E name \in random_string(maxlen) :
         /\ pathname2' = name
         /\ dir' = Rename(dir, pathname1, name)
    /\ tries1' = tries1 + 1
    /\ last1' = maxlen
    /\ ok1' = TRUE
    /\ n_i' = 0
    /\ n_pc' = "short"
    /\ UNCHANGED <<fileWipeVars, minusVars, pathVars, pureVars, pathname1, pathname3, maxlen,
                   tries2, last2, ok2>>

\* first loop: os.rename raises OSError
WnLongFailed ==
    /\ n_pc = "long"
    /\ tries1' = tries1 + 1
    /\ last1' = maxlen
    /\ maxlen' = NextMaxlen(maxlen)
    /\ IF Exhausted(n_i + 1)
       THEN /\ pathname2' = pathname1
            /\ n_i' = 0
            /\ n_pc' = "short"
       ELSE /\ n_i' = n_i + 1
            /\ UNCHANGED <<pathname2, n_pc>>
    /\ UNCHANGED <<fileWipeVars, minusVars, pathVars, pureVars, pathname1, pathname3, dir,
                   tries2, last2, ok1, ok2>>

\* second loop: os.rename(pathname2, pathname3) succeeds; return pathname3
WnShortRenamed ==
    /\ n_pc = "short"
    /\ \E name \in random_string(n_i + 1) :
         /\ pathname3' = name
         /\ dir' = Rename(dir, pathname2, name)
    /\ tries2' = tries2 + 1
    /\ last2' = n_i + 1
    /\ ok2' = TRUE
    /\ n_pc' = "returned"
    /\ UNCHANGED <<fileWipeVars, minusVars, pathVars, pureVars, pathname1, pathname2, n_i,
                   maxlen, tries1, last1, ok1>>

\* second loop: os.rename raises
WnShortFailed ==
    /\ n_pc = "short"
    /\ tries2' = tries2 + 1
    /\ last2' = n_i + 1
    /\ n_i' = n_i + 1
    /\ IF Exhausted(n_i + 1)
       THEN /\ pathname3' = pathname2
            /\ n_pc' = "returned"
       ELSE UNCHANGED <<pathname3, n_pc>>
    /\ UNCHANGED <<fileWipeVars, minusVars, pathVars, pureVars, pathname1, pathname2, maxlen,
                   dir, tries1, last1, ok1, ok2>>

NextName == WnLongRenamed \/ WnLongFailed \/ WnShortRenamed \/ WnShortFailed

SpecName == InitName /\ [][NextName]_vars

\* C16 as the specification states it: after wipe_name(p) has returned p',
\* whatever the renames did, p does not exist, p' exists, and p' # p.
C16_OldNameGone ==
    n_pc = "returned"
        => /\ pathname1 \notin dir
           /\ pathname3 \in dir
           /\ pathname3 # pathname1

\* C16, amended: after wipe_name(p) has returned p', p' is the one name of
\* the file; p is gone when p' is another name, and p' = p when no rename
\* succeeded.
C16_FileAtReturnedName ==
    n_pc = "returned"
        => /\ dir = {pathname3}
           /\ pathname3 # pathname1 => pathname1 \notin dir
           /\ (~ok1 /\ ~ok2) => pathname3 = pathname1

\* both renames succeeded and the file has a new, short name
C16_RenamedTwice ==
    /\ n_pc = "returned"
    /\ ok1
    /\ ok2
    /\ pathname1 = <<8, "a">>
    /\ pathname3[1] = 1
    /\ pathname1 \notin dir

\* C17 as the specification states it: a loop stops after 100 failed
\* attempts and keeps its path; the k-th name of the first loop has length
\* 226 - 10 (k - 1), the k-th name of the second loop has length k.
C17_HundredAttempts ==
    /\ tries1 - (IF ok1 THEN 1 ELSE 0) <= 100
    /\ tries2 - (IF ok2 THEN 1 ELSE 0) <= 100
    /\ tries1 > 0 => last1 = 226 - 10 * (tries1 - 1)
    /\ tries2 > 0 => last2 = tries2
    /\ (n_pc \in {"short", "returned"} /\ ~ok1) => pathname2 = pathname1
    /\ (n_pc = "returned" /\ ~ok2) => pathname3 = pathname2

\* C17, amended: a loop gives up after its 101st failed attempt and keeps
\* its path; the k-th name of the first loop has length 226 - 10 (k - 1)
\* but never less than 6, the k-th name of the second loop has length k.
C17_HundredAndOneAttempts ==
    /\ tries1 - (IF ok1 THEN 1 ELSE 0) <= 101
    /\ tries2 - (IF ok2 THEN 1 ELSE 0) <= 101
    /\ (n_pc \in {"short", "returned"} /\ ~ok1) => (tries1 = 101 /\ pathname2 = pathname1)
    /\ (n_pc = "returned" /\ ~ok2) => (tries2 = 101 /\ pathname3 = pathname2)
    /\ tries1 > 0 => last1 = (IF tries1 <= 23 THEN 226 - 10 * (tries1 - 1) ELSE 6)
    /\ tries2 > 0 => last2 = tries2

\* both loops have given up
C17_BothExhausted ==
    /\ n_pc = "returned"
    /\ ~ok1
    /\ ~ok2
    /\ tries1 = 101
    /\ tries2 = 101
    /\ last1 = 6
    /\ last2 = 101

(***************************************************************************)
(* wipe_contents.wipe_write (FileUtilities.py): the fallback overwrite.    *)
(* arg is getsize(path); res.size is the loop variable and res.written the *)
(* number of bytes handed to f.write, which is the length of the file      *)
(* opened with 'wb'.                                                       *)
(***************************************************************************)
\* while size > 0
MoreToWriteInclusive(size) == size >= 0

MoreToWrite(size) == size > 0

FileSizes ==
    {k * WIPE_BLOCK + d : k \in 0..MaxBlocks, d \in {0, 1, 2, 2048, 4095}}

InitWipeWrite ==
    /\ fn = "wipe_write"
    /\ arg \in FileSizes
    /\ res = <<>>
    /\ ppc = "call"
    /\ InitIdleRun
    /\ InitIdleMinus
    /\ InitIdleName
    /\ InitIdlePath

\* size = getsize(path); f = open(path, 'wb')
WwOpen ==
    /\ fn = "wipe_write"
    /\ ppc = "call"
    /\ res' = [size |-> arg, written |-> 0]
    /\ ppc' = "loop"
    /\ UNCHANGED <<fileWipeVars, minusVars, pathVars, fn, arg, nameVars>>

\* f.write(blanks); size -= 4096
WwWrite ==
    /\ fn = "wipe_write"
    /\ ppc = "loop"
    /\ MoreToWrite(res.size)
    /\ res' = [size |-> res.size - WIPE_BLOCK, written |-> res.written + WIPE_BLOCK]
    /\ UNCHANGED <<fileWipeVars, minusVars, pathVars, fn, arg, ppc, nameVars>>

\* f.flush(); os.fsync(f.fileno()); return f
WwFlush ==
    /\ fn = "wipe_write"
    /\ ppc = "loop"
    /\ ~MoreToWrite(res.size)
    /\ ppc' = "done"
    /\ UNCHANGED <<fileWipeVars, minusVars, pathVars, fn, arg, res, nameVars>>

NextWipeWrite == WwOpen \/ WwWrite \/ WwFlush

SpecWipeWrite == InitWipeWrite /\ [][NextWipeWrite]_vars

\* C18 as the specification states it: wipe_write writes exactly
\* getsize(path) zero bytes, whatever the size of the file.
C18_WritesExactlySize ==
    (fn = "wipe_write" /\ ppc = "done") => res.written = arg

\* C18, amended: wipe_write writes getsize(path) rounded up to a whole
\* number of 4096-byte blocks: at least the size, less than the size plus
\* 4096, and exactly the size only when it is a multiple of 4096.
C18_WritesWholeBlocks ==
    (fn = "wipe_write" /\ ppc = "done")
        => /\ res.written % WIPE_BLOCK = 0
           /\ res.written >= arg
           /\ res.written < arg + WIPE_BLOCK

\* a file of 4097 bytes got 8192 zero bytes
C18_Wrote8192For4097 ==
    /\ fn = "wipe_write"
    /\ ppc = "done"
    /\ arg = 4097
    /\ res.written = 8192

(***************************************************************************)
(* wipe_path (FileUtilities.py).  A byte count is a pair <<q, r>> standing *)
(* for q * 65536 + r with 0 <= r < 65536, so that 4 GiB fits.              *)
(***************************************************************************)
Norm(q, r) == <<q + (r \div FILL_BLOCK), r % FILL_BLOCK>>
Bytes(n) == Norm(0, n)
Add(a, b) == Norm(a[1] + b[1], a[2] + b[2])
Sub(a, b) == Norm(a[1] - b[1], a[2] - b[2])
Lt(a, b) == a[1] < b[1] \/ (a[1] = b[1] /\ a[2] < b[2])
Le(a, b) == ~Lt(b, a)
MinSize(a, b) == IF Lt(b, a) THEN b ELSE a
\* k blocks of len bytes, len a power of two up to 65536
Times(k, len) == <<k \div (FILL_BLOCK \div len), (k % (FILL_BLOCK \div len)) * len>>
\* how many whole blocks of len bytes there are in a
Fit(a, len) == a[1] * (FILL_BLOCK \div len) + (a[2] \div len)

\* 4 * 1024 * 1024 * 1024 - 65536
FAT_WRITE_LIMIT == <<65535, 0>>
\* "FAT32 has a maximum file size of 4,294,967,295 bytes"
FAT_MAX_FILE == <<65535, 65535>>
\* the names psutil gives a FAT32 volume: vfat on Linux, FAT32 on Windows
FatTypes == {"vfat", "FAT32"}
NoLimit == <<1000000, 0>>
\* what another process frees when it deletes a file
FreedBytes == <<2, 0>>
\* what another process allocates when it writes a file
TakenBytes == <<1, 0>>

\* elif writtensize < 4 * 1024 * 1024 * 1024 - 65536 (only when fstype is vfat)
UnderLimit(type, size) == type # "vfat" \/ Lt(size, FAT_WRITE_LIMIT)

\* if done_wiping: truncate_f(f)
TruncateAlways(done) == TRUE

TruncateFirst(done) == done

LastFile == files[Len(files)]

SetLast(f) == [files EXCEPT ![Len(files)] = f]

\* room for whole writes: the free space, the guard on writtensize, and the
\* largest file the file system takes
GuardRoom == IF fstype = "vfat" THEN Sub(FAT_WRITE_LIMIT, writtensize) ELSE NoLimit
FsRoom == IF fstype \in FatTypes THEN Sub(FAT_MAX_FILE, LastFile.size) ELSE NoLimit
Avail == MinSize(free_bytes, MinSize(GuardRoom, FsRoom))

\* a run of k successful writes: all that fit, or the first one of a file
WriteRuns(kmax, size) ==
    ({kmax} \cup (IF size = <<0, 0>> THEN {1} ELSE {})) \cap (1..kmax)

\* where the finally block goes for file n of count
CleanUpStep(n, count, done) ==
    IF n > count THEN "ended"
    ELSE IF TruncateFirst(done) THEN "f_truncate" ELSE "f_close"

\* if idle and (time.time() - last_idle) > 2: yield estimate_completion()
AfterWrite == IF idle THEN {"write", "yielded"} ELSE {"write"}

otherVars == <<fileWipeVars, minusVars, pureVars, nameVars>>
progressVars == <<watching, progress, reached99>>
errnoVars == <<enospc, last_errno>>

\* estimate_completion: done_bytes = start_free_bytes - free_space(pathname),
\* and 0 when that is negative
done_bytes(free) ==
    IF Lt(Sub(start_free_bytes, free), <<0, 0>>) THEN <<0, 0>>
    ELSE Sub(start_free_bytes, free)

\* done_percent = 1.0 * done_bytes / (start_free_bytes + 1), 0 when
\* start_free_bytes is 0; this is done_percent >= 0.99
NearlyDone(done) ==
    /\ start_free_bytes # <<0, 0>>
    /\ Le(Norm(99 * start_free_bytes[1], 99 * (start_free_bytes[2] + 1)),
          Norm(100 * done[1], 100 * done[2]))

\* the end of an iteration of the inner loop:
\* if idle and (time.time() - last_idle) > 2: yield estimate_completion()
LoopOn ==
    \E next \in AfterWrite :
        /\ wp_pc' = next
        /\ IF next = "yielded" /\ watching
           THEN /\ progress' = (IF progress = <<>> THEN <<>> ELSE <<Last(progress)>>)
                                 \o <<done_bytes(free_bytes')>>
                /\ reached99' = (reached99 \/ NearlyDone(done_bytes(free_bytes')))
                /\ UNCHANGED watching
           ELSE UNCHANGED progressVars

\* len(blanks) > 1
CanHalveAboveTwo(len) == len > 2

CanHalve(len) == len > 1

StartFree ==
    {<<0, 0>>, <<1, 512>>, <<65534, 512>>, <<65536, 0>>, <<81920, 0>>}

InitFill(types, sizes, kept) ==
    /\ fstype \in types
    /\ idle \in BOOLEAN
    /\ free_bytes \in sizes
    /\ watching = kept
    /\ start_free_bytes = free_bytes
    /\ files = <<>>
    /\ total_bytes = <<0, 0>>
    /\ done_wiping = FALSE
    /\ blanks = 0
    /\ writtensize = <<0, 0>>
    /\ frees = 0
    /\ fi = 0
    /\ close_fails = 0
    /\ route = "none"
    /\ takes = 0
    /\ progress = <<>>
    /\ reached99 = FALSE
    /\ enospc = 0
    /\ last_errno = "none"
    /\ wp_pc = "create"
    /\ InitIdleRun
    /\ InitIdleMinus
    /\ InitIdlePure
    /\ InitIdleName

InitPath == InitFill({"vfat", "FAT32", "ext4"}, StartFree, FALSE)

\* f = temporaryfile(); files.append(f); blanks = b'\0' * 65536; writtensize = 0
WpCreate ==
    /\ wp_pc = "create"
    /\ Len(files) < MaxFiles
    /\ files' = Append(files, [size |-> <<0, 0>>, open |-> TRUE, exists |-> TRUE,
                               truncated |-> "no"])
    /\ blanks' = FILL_BLOCK
    /\ writtensize' = <<0, 0>>
    /\ enospc' = 0
    /\ last_errno' = "none"
    /\ wp_pc' = "write"
    /\ UNCHANGED <<otherVars, takes, progressVars, fstype, idle, total_bytes,
                   start_free_bytes, done_wiping, free_bytes, frees, fi, close_fails,
                   route>>

\* temporaryfile() raises EMFILE or ENOSPC: break; done_wiping = True
WpCreateFull ==
    /\ wp_pc = "create"
    /\ done_wiping' = TRUE
    /\ route' = "normal"
    /\ fi' = 1
    /\ wp_pc' = CleanUpStep(1, Len(files), TRUE)
    /\ UNCHANGED <<otherVars, takes, progressVars, errnoVars,
                   fstype, idle, files, total_bytes, start_free_bytes,
                   blanks, writtensize, free_bytes, frees, close_fails>>

\* temporaryfile() raises another OSError: raise
WpCreateError ==
    /\ wp_pc = "create"
    /\ route' = "exception"
    /\ fi' = 1
    /\ wp_pc' = CleanUpStep(1, Len(files), FALSE)
    /\ UNCHANGED <<otherVars, takes, progressVars, errnoVars,
                   fstype, idle, files, total_bytes, start_free_bytes,
                   done_wiping, blanks, writtensize, free_bytes, frees, close_fails>>

\* f.write(blanks) succeeds, k times in a row
WpWrite ==
    /\ wp_pc = "write"
    /\ UnderLimit(fstype, writtensize)
    /\ \E k \in WriteRuns(Fit(Avail, blanks), LastFile.size) :
         /\ files' = SetLast([LastFile EXCEPT !.size = Add(@, Times(k, blanks))])
         /\ free_bytes' = Sub(free_bytes, Times(k, blanks))
         /\ writtensize' = IF fstype = "vfat"
                           THEN Add(writtensize, Times(k, blanks))
                           ELSE writtensize
    /\ last_errno' = "none"
    /\ LoopOn
    /\ UNCHANGED <<otherVars, takes, enospc, fstype, idle, total_bytes,
                   start_free_bytes, done_wiping, blanks, frees, fi, close_fails, route>>

\* fstype is vfat and writtensize has reached the limit: break
WpLimit ==
    /\ wp_pc = "write"
    /\ ~UnderLimit(fstype, writtensize)
    /\ wp_pc' = "flush"
    /\ UNCHANGED <<otherVars, takes, progressVars, errnoVars,
                   fstype, idle, files, total_bytes, start_free_bytes,
                   done_wiping, blanks, writtensize, free_bytes, frees, fi,
                   close_fails, route>>

\* after IOError ENOSPC: halve blanks, or break when one byte is left
Halved ==
    /\ enospc' = enospc + 1
    /\ last_errno' = "ENOSPC"
    /\ IF CanHalve(blanks)
       THEN /\ blanks' = blanks \div 2
            /\ LoopOn
       ELSE /\ wp_pc' = "flush"
            /\ UNCHANGED <<blanks, progressVars>>

\* f.write(blanks) raises ENOSPC; the part of the block that fitted, or
\* nothing, is in the file, and writtensize has not changed
WpNoSpace ==
    /\ wp_pc = "write"
    /\ UnderLimit(fstype, writtensize)
    /\ Lt(free_bytes, Bytes(blanks))
    /\ \E part \in {<<0, 0>>, MinSize(free_bytes, FsRoom)} :
         /\ files' = SetLast([LastFile EXCEPT !.size = Add(@, part)])
         /\ free_bytes' = Sub(free_bytes, part)
    /\ Halved
    /\ UNCHANGED <<otherVars, takes, fstype, idle, total_bytes, start_free_bytes,
                   done_wiping, writtensize, frees, fi, close_fails, route>>

\* the block would take the file over the largest size of the file system:
\* f.write(blanks) raises EFBIG (or, under Windows, ENOSPC), with the part
\* that fitted, or nothing, in the file
WpTooBig ==
    /\ wp_pc = "write"
    /\ UnderLimit(fstype, writtensize)
    /\ fstype \in FatTypes
    /\ ~Lt(free_bytes, Bytes(blanks))
    /\ Lt(FsRoom, Bytes(blanks))
    /\ \E part \in {<<0, 0>>, FsRoom} :
         /\ files' = SetLast([LastFile EXCEPT !.size = Add(@, part)])
         /\ free_bytes' = Sub(free_bytes, part)
    /\ \E errno \in (IF fstype = "FAT32" THEN {"EFBIG", "ENOSPC"} ELSE {"EFBIG"}) :
         IF errno = "ENOSPC"
         THEN Halved
         ELSE /\ wp_pc' = "flush"
              /\ last_errno' = "EFBIG"
              /\ UNCHANGED <<blanks, enospc, progressVars>>
    /\ UNCHANGED <<otherVars, takes, fstype, idle, total_bytes, start_free_bytes,
                   done_wiping, writtensize, frees, fi, close_fails, route>>

\* f.write(blanks) raises another IOError: raise
WpWriteError ==
    /\ wp_pc = "write"
    /\ UnderLimit(fstype, writtensize)
    /\ last_errno' = "other"
    /\ route' = "exception"
    /\ fi' = 1
    /\ wp_pc' = CleanUpStep(1, Len(files), FALSE)
    /\ UNCHANGED <<otherVars, takes, progressVars, enospc, fstype, idle, files,
                   total_bytes, start_free_bytes, done_wiping, blanks, writtensize,
                   free_bytes, frees, close_fails>>

\* the caller asks for the next item
WpResume ==
    /\ wp_pc = "yielded"
    /\ wp_pc' = "write"
    /\ UNCHANGED <<otherVars, takes, progressVars, errnoVars,
                   fstype, idle, files, total_bytes, start_free_bytes,
                   done_wiping, blanks, writtensize, free_bytes, frees, fi,
                   close_fails, route>>

\* the caller closes the generator: GeneratorExit at the yield
WpGeneratorClose ==
    /\ wp_pc = "yielded"
    /\ route' = "closed"
    /\ fi' = 1
    /\ wp_pc' = CleanUpStep(1, Len(files), FALSE)
    /\ UNCHANGED <<otherVars, takes, progressVars, errnoVars,
                   fstype, idle, files, total_bytes, start_free_bytes,
                   done_wiping, blanks, writtensize, free_bytes, frees, close_fails>>

\* f.flush(); os.fsync(); total_bytes += f.tell();
\* if start_free_bytes - total_bytes < 2: break; done_wiping = True
WpFlush ==
    /\ wp_pc = "flush"
    /\ total_bytes' = Add(total_bytes, LastFile.size)
    /\ IF Lt(Sub(start_free_bytes, total_bytes'), Bytes(2))
       THEN /\ done_wiping' = TRUE
            /\ route' = "normal"
            /\ fi' = 1
            /\ wp_pc' = CleanUpStep(1, Len(files), TRUE)
       ELSE /\ wp_pc' = "create"
            /\ UNCHANGED <<done_wiping, route, fi>>
    /\ UNCHANGED <<otherVars, takes, progressVars, errnoVars,
                   fstype, idle, files, start_free_bytes, blanks,
                   writtensize, free_bytes, frees, close_fails>>

\* finally: truncate_f(f), or the exception it raises is logged
WpTruncate ==
    /\ wp_pc = "f_truncate"
    /\ \/ /\ files' = [files EXCEPT ![fi] = [@ EXCEPT !.size = <<0, 0>>,
                                                      !.truncated = "yes"]]
          /\ free_bytes' = Add(free_bytes, files[fi].size)
       \/ /\ files' = [files EXCEPT ![fi] = [@ EXCEPT !.truncated = "failed"]]
          /\ UNCHANGED free_bytes
    /\ wp_pc' = "f_close"
    /\ UNCHANGED <<otherVars, takes, progressVars, errnoVars,
                   fstype, idle, total_bytes, start_free_bytes, done_wiping,
                   blanks, writtensize, frees, fi, close_fails, route>>

\* finally: f.close() raises IOError; time.sleep(0.1) and again
WpCloseFailed ==
    /\ wp_pc = "f_close"
    /\ close_fails < MaxCloseFailures
    /\ close_fails' = close_fails + 1
    /\ UNCHANGED <<otherVars, takes, progressVars, errnoVars,
                   wp_pc, fstype, idle, files, total_bytes, start_free_bytes,
                   done_wiping, blanks, writtensize, free_bytes, frees, fi, route>>

\* finally: f.close(); break
WpClose ==
    /\ wp_pc = "f_close"
    /\ files' = [files EXCEPT ![fi] = [@ EXCEPT !.open = FALSE]]
    /\ wp_pc' = "f_delete"
    /\ UNCHANGED <<otherVars, takes, progressVars, errnoVars,
                   fstype, idle, total_bytes, start_free_bytes, done_wiping,
                   blanks, writtensize, free_bytes, frees, fi, close_fails, route>>

\* finally: delete(f.name, ignore_missing=True), then the next file
WpDelete ==
    /\ wp_pc = "f_delete"
    /\ files' = [files EXCEPT ![fi] = [@ EXCEPT !.exists = FALSE]]
    /\ free_bytes' = Add(free_bytes, files[fi].size)
    /\ fi' = fi + 1
    /\ close_fails' = 0
    /\ wp_pc' = CleanUpStep(fi + 1, Len(files), done_wiping)
    /\ UNCHANGED <<otherVars, takes, progressVars, errnoVars,
                   fstype, idle, total_bytes, start_free_bytes, done_wiping,
                   blanks, writtensize, frees, route>>

\* another process deletes one of its files while the volume is being filled
EnvFree ==
    /\ wp_pc \in {"write", "yielded"}
    /\ frees < MaxFrees
    /\ frees' = frees + 1
    /\ free_bytes' = Add(free_bytes, FreedBytes)
    /\ UNCHANGED <<otherVars, takes, progressVars, errnoVars,
                   wp_pc, fstype, idle, files, total_bytes, start_free_bytes,
                   done_wiping, blanks, writtensize, fi, close_fails, route>>

\* another process allocates space while the volume is being filled
EnvTake ==
    /\ wp_pc \in {"write", "yielded"}
    /\ takes < MaxTakes
    /\ Le(TakenBytes, free_bytes)
    /\ takes' = takes + 1
    /\ free_bytes' = Sub(free_bytes, TakenBytes)
    /\ UNCHANGED <<otherVars, progressVars, errnoVars, wp_pc, fstype, idle, files,
                   total_bytes, start_free_bytes, done_wiping, blanks, writtensize,
                   frees, fi, close_fails, route>>

NextPath ==
    \/ WpCreate \/ WpCreateFull \/ WpCreateError
    \/ WpWrite \/ WpLimit \/ WpNoSpace \/ WpTooBig \/ WpWriteError
    \/ WpResume \/ WpGeneratorClose
    \/ WpFlush
    \/ WpTruncate \/ WpCloseFailed \/ WpClose \/ WpDelete
    \/ EnvFree

SpecPath == InitPath /\ [][NextPath]_vars

\* a volume that is not FAT32, other processes allocating and freeing space,
\* and a caller that keeps the progress records; 40 MiB free is 640 blocks
ProgressFree == {<<0, 0>>, <<1, 512>>, <<640, 0>>}

InitProgress == InitFill({"ext4"}, ProgressFree, TRUE)

NextProgress ==
    \/ WpCreate \/ WpCreateFull \/ WpCreateError
    \/ WpWrite \/ WpNoSpace \/ WpWriteError
    \/ WpResume \/ WpGeneratorClose
    \/ WpFlush
    \/ WpTruncate \/ WpCloseFailed \/ WpClose \/ WpDelete
    \/ EnvFree \/ EnvTake

SpecProgress == InitProgress /\ [][NextProgress]_vars

C20_Fat32FileLimit ==
    /\ [](fstype \in FatTypes
            => \A n \in 1..Len(files) : Le(files[n].size, FAT_WRITE_LIMIT))
    /\ [][(/\ fstype \in FatTypes
           /\ wp_pc = "flush"
           /\ Le(FAT_WRITE_LIMIT, LastFile.size)
           /\ Le(Bytes(2), free_bytes))
              => wp_pc' = "create"]_vars

\* C21 as the specification states it: once the volume is full and the
\* writes to the current temporary file have failed with ENOSPC down to a
\* block of one byte, wipe_path creates no further temporary file, also when
\* it wrote fewer bytes than were free at the start.
C21_StopsWhenFull ==
    [][(/\ wp_pc = "flush"
        /\ last_errno = "ENOSPC"
        /\ blanks = 1
        /\ free_bytes = <<0, 0>>)
           => wp_pc' # "create"]_vars

\* C22 as the specification states it: of two successive progress records
\* of a run the later one has the larger or the same done fraction, also
\* when other processes allocate or free space meanwhile.
C22_ProgressMonotone ==
    Len(progress) = 2 => Le(progress[1], progress[2])

\* C23 as the specification states it: a run that has filled the free space
\* and ended has yielded a progress record of done fraction 0.99 or more.
C23_Reached99 ==
    (wp_pc = "ended" /\ route = "normal" /\ watching) => reached99

\* C29: while wipe_path writes a temporary file on a volume it does not
\* take for FAT32 (fstype is not vfat), the block is 64 KiB halved once for
\* every ENOSPC so far, the write is tried again after each halving, writing
\* stops only when a block of one byte has failed with ENOSPC or a write has
\* failed with EFBIG, and another IO error leaves the run as an exception.
C29_HalvingUntilOneByte ==
    /\ (fstype # "vfat" /\ wp_pc \in {"write", "yielded", "flush"})
         => /\ blanks = FILL_BLOCK \div Power(2, Min(enospc, 16))
            /\ wp_pc \in {"write", "yielded"}
                 => (enospc <= 16 /\ last_errno \in {"none", "ENOSPC"})
            /\ wp_pc = "flush"
                 => \/ last_errno = "ENOSPC" /\ blanks = 1 /\ enospc = 17
                    \/ last_errno = "EFBIG"
    /\ (fstype # "vfat" /\ last_errno = "other")
         => /\ route = "exception"
            /\ ~done_wiping
            /\ wp_pc \in {"f_close", "f_delete", "ended"}

\* seventeen writes have failed with ENOSPC, the last one of a single byte
C29_OneByteFailed ==
    /\ fstype = "ext4"
    /\ wp_pc = "flush"
    /\ blanks = 1
    /\ enospc = 17
    /\ Lt(<<0, 0>>, LastFile.size)

(***************************************************************************)
(* delete (FileUtilities.py).  arg holds the arguments and what the path   *)
(* is; res holds what has been done to the path and the exception that     *)
(* left delete, if any.                                                    *)
(***************************************************************************)
PathKinds == {"special", "dir", "file", "link", "other"}

\* what wipe_contents(path) can do: return, or raise pywinerror 2, another
\* pywinerror, or IOError
WipeOutcomes == {"ok", "pywinerror2", "pywinerror", "IOError"}

\* the exception handlers around wipe_contents: the exception that goes on
\* to the caller, "none" when the handler swallows it
ShredHandler(raised) == IF raised = "pywinerror" THEN raised ELSE "none"

InitDelete ==
    /\ fn = "delete"
    /\ arg \in [exists : BOOLEAN, kind : PathKinds, shred : BOOLEAN,
                options_shred : BOOLEAN, allow_shred : BOOLEAN,
                ignore_missing : BOOLEAN, dir_empty : BOOLEAN]
    /\ res = [wipe |-> "none", renamed |-> FALSE, removed |-> FALSE, raised |-> "none"]
    /\ ppc = "call"
    /\ InitIdleRun
    /\ InitIdleMinus
    /\ InitIdleName
    /\ InitIdlePath

\* do_shred = allow_shred and (shred or options.get('shred'))
do_shred == arg.allow_shred /\ (arg.shred \/ arg.options_shred)

deleteOthers == <<fileWipeVars, minusVars, pathVars, nameVars, fn, arg>>

\* if not os.path.lexists(path): return, or raise OSError(2, ...)
DelMissing ==
    /\ fn = "delete"
    /\ ppc = "call"
    /\ ~arg.exists
    /\ res' = [res EXCEPT !.raised = IF arg.ignore_missing THEN "none" ELSE "OSError"]
    /\ ppc' = "done"
    /\ UNCHANGED deleteOthers

\* FIFO or (on POSIX) link: os.remove(path); link: os.remove(path);
\* another special file: only logged
DelPlain ==
    /\ fn = "delete"
    /\ ppc = "call"
    /\ arg.exists
    /\ arg.kind \in {"special", "link", "other"}
    /\ res' = [res EXCEPT !.removed = arg.kind # "other"]
    /\ ppc' = "done"
    /\ UNCHANGED deleteOthers

\* directory: with do_shred a directory that is not empty is left alone and
\* an empty one renamed by wipe_name; os.rmdir, whose ENOTEMPTY and EBUSY are
\* logged and whose other errors are raised
DelDir ==
    /\ fn = "delete"
    /\ ppc = "call"
    /\ arg.exists
    /\ arg.kind = "dir"
    /\ IF do_shred /\ ~arg.dir_empty
       THEN res' = res
       ELSE \E rmdir \in {"ok", "ENOTEMPTY", "EBUSY", "OSError"} :
              /\ rmdir = "ok" => arg.dir_empty
              /\ res' = [res EXCEPT !.renamed = do_shred,
                                    !.removed = rmdir = "ok",
                                    !.raised = IF rmdir = "OSError" THEN rmdir ELSE "none"]
    /\ ppc' = "done"
    /\ UNCHANGED deleteOthers

\* regular file without do_shred: os.remove(path)
DelUnlink ==
    /\ fn = "delete"
    /\ ppc = "call"
    /\ arg.exists
    /\ arg.kind = "file"
    /\ ~do_shred
    /\ res' = [res EXCEPT !.removed = TRUE]
    /\ ppc' = "done"
    /\ UNCHANGED deleteOthers

\* regular file with do_shred: wipe_contents(path) inside its try
DelWipeContents ==
    /\ fn = "delete"
    /\ ppc = "call"
    /\ arg.exists
    /\ arg.kind = "file"
    /\ do_shred
    /\ \E thrown \in WipeOutcomes :
         /\ res' = [res EXCEPT !.wipe = thrown, !.raised = ShredHandler(thrown)]
         /\ ppc' = IF ShredHandler(thrown) = "none" THEN "name" ELSE "done"
    /\ UNCHANGED deleteOthers

\* os.remove(wipe_name(path))
DelWipeName ==
    /\ fn = "delete"
    /\ ppc = "name"
    /\ res' = [res EXCEPT !.renamed = TRUE, !.removed = TRUE]
    /\ ppc' = "done"
    /\ UNCHANGED deleteOthers

NextDelete ==
    DelMissing \/ DelPlain \/ DelDir \/ DelUnlink \/ DelWipeContents \/ DelWipeName

SpecDelete == InitDelete /\ [][NextDelete]_vars

\* C24 as the specification states it: when delete with shredding gets an
\* IO error from overwriting the contents of a regular file, delete ends
\* with that error raised and with the file neither renamed nor removed.
C24_ShredErrorReachesCaller ==
    (fn = "delete" /\ ppc = "done" /\ res.wipe = "IOError")
        => (res.raised = "IOError" /\ ~res.renamed /\ ~res.removed)

(***************************************************************************)
(* clean_up (WindowsWipe.py) step by step, with OS calls that may raise.   *)
(* arg holds the three arguments and the calls that raise when made; res   *)
(* holds the calls clean_up has made and the exception that left it.       *)
(***************************************************************************)
CleanUpCalls == {"file_handle", "volume_handle", "tmp_file_path"}

InitCleanUp ==
    /\ fn = "clean_up"
    /\ arg \in [file_handle : {"None", "handle"}, volume_handle : {"None", "handle"},
                tmp_file_path : {"None", "path"}, raising : SUBSET CleanUpCalls]
    /\ res = [made |-> {}, raised |-> "none"]
    /\ ppc = "file_handle"
    /\ InitIdleRun
    /\ InitIdleMinus
    /\ InitIdleName
    /\ InitIdlePath

\* one statement of the try block: the call is made if its argument is set;
\* if it raises, the except clause swallows the exception and clean_up ends
CleanUpStatement(call, after) ==
    IF arg[call] = "None"
    THEN [res |-> res, ppc |-> after]
    ELSE [res |-> [res EXCEPT !.made = @ \cup {call}],
          ppc |-> IF call \in arg.raising THEN "done" ELSE after]

\* if file_handle: CloseHandle(file_handle)
CuCloseFile ==
    /\ fn = "clean_up"
    /\ ppc = "file_handle"
    /\ res' = CleanUpStatement("file_handle", "volume_handle").res
    /\ ppc' = CleanUpStatement("file_handle", "volume_handle").ppc
    /\ UNCHANGED <<fileWipeVars, minusVars, pathVars, nameVars, fn, arg>>

\* if volume_handle: CloseHandle(volume_handle)
CuCloseVolume ==
    /\ fn = "clean_up"
    /\ ppc = "volume_handle"
    /\ res' = CleanUpStatement("volume_handle", "tmp_file_path").res
    /\ ppc' = CleanUpStatement("volume_handle", "tmp_file_path").ppc
    /\ UNCHANGED <<fileWipeVars, minusVars, pathVars, nameVars, fn, arg>>

\* if tmp_file_path: DeleteFile(tmp_file_path)
CuDeleteFile ==
    /\ fn = "clean_up"
    /\ ppc = "tmp_file_path"
    /\ res' = CleanUpStatement("tmp_file_path", "done").res
    /\ ppc' = CleanUpStatement("tmp_file_path", "done").ppc
    /\ UNCHANGED <<fileWipeVars, minusVars, pathVars, nameVars, fn, arg>>

NextCleanUp == CuCloseFile \/ CuCloseVolume \/ CuDeleteFile

SpecCleanUp == InitCleanUp /\ [][NextCleanUp]_vars

\* C27 as the specification states it: when clean_up has ended, no
\* exception has left it and it has made the call for each argument that
\* was set, also when an earlier call raised.
C27_CleanUpContinues ==
    (fn = "clean_up" /\ ppc = "done")
        => /\ res.raised = "none"
           /\ \A call \in CleanUpCalls : arg[call] # "None" => call \in res.made

====
